---------------------------- MODULE Spec2Model ----------------------------
(***************************************************************************)
(* A model of async-geotiff: the classification of a TIFF's image          *)
(* directories into a primary image, overviews and masks                   *)
(* (GeoTIFF.__init__), tile fetching (FetchTileMixin, Overview), and the   *)
(* windowed read that stitches tiles (read, assemble_tiles).               *)
(*                                                                         *)
(* Conventions.  A Python Optional is a sequence: <<>> is None and <<x>>   *)
(* is the value x.  A Python call that may raise returns a record          *)
(* [ok, exc, val].  An image directory is referred to by its position in   *)
(* tiff.ifds (0-based, as in Python).  Affine coefficients are exact       *)
(* rationals <<numerator, denominator>>.                                   *)
(*                                                                         *)
(* The modules do not agree on every interface: read expects Tile objects  *)
(* where fetch_tiles builds Arrays, and the callers of Array and           *)
(* Array._create leave out count and nodata.  Each function is modelled by *)
(* its own body; a list element is wrapped in a Tile with its grid         *)
(* position and an argument a caller leaves out is None.                   *)
(***************************************************************************)
EXTENDS Integers, Sequences, FiniteSets, TLC

VARIABLES
    tiff,      \* the parsed TIFF: the sequence of its image directories
    geotiff,   \* the GeoTIFF object built on it: [status, exc, obj]
    call,      \* the fetch or read call in flight, with its pending futures
    result     \* what the last finished call returned or raised

vars == <<tiff, geotiff, call, result>>

None == <<>>
Some(x) == <<x>>
IsNone(o) == o = <<>>
Get(o) == o[1]

Ok(v) == [ok |-> TRUE, exc |-> "", val |-> Some(v)]
Raise(e) == [ok |-> FALSE, exc |-> e, val |-> None]

Max(a, b) == IF a >= b THEN a ELSE b
Min(a, b) == IF a <= b THEN a ELSE b
Abs(n) == IF n < 0 THEN -n ELSE n

RECURSIVE GCD(_, _)
GCD(a, b) == IF b = 0 THEN a ELSE GCD(b, a % b)

(***************************************************************************)
(* Exact rationals, for the coefficients of affine.Affine.                 *)
(***************************************************************************)
Rat(n, d) ==
    LET g == GCD(Abs(n), Abs(d))
        s == IF d < 0 THEN -1 ELSE 1
    IN  <<(s * n) \div g, (s * d) \div g>>
RInt(n) == <<n, 1>>
RAdd(p, q) == Rat(p[1] * q[2] + q[1] * p[2], p[2] * q[2])
RMul(p, q) == Rat(p[1] * q[1], p[2] * q[2])

Affine(a, b, c, d, e, f) == [a |-> a, b |-> b, c |-> c, d |-> d, e |-> e, f |-> f]

\* Affine.translation(xoff, yoff)
Affine_translation(xoff, yoff) ==
    Affine(RInt(1), RInt(0), RInt(xoff), RInt(0), RInt(1), RInt(yoff))

\* Affine.scale(sx, sy), sx and sy rationals
Affine_scale(sx, sy) ==
    Affine(sx, RInt(0), RInt(0), RInt(0), sy, RInt(0))

\* Affine.__mul__: the composition A * B
Affine_mul(A, B) ==
    Affine(RAdd(RMul(A.a, B.a), RMul(A.b, B.d)),
           RAdd(RMul(A.a, B.b), RMul(A.b, B.e)),
           RAdd(RAdd(RMul(A.a, B.c), RMul(A.b, B.f)), A.c),
           RAdd(RMul(A.d, B.a), RMul(A.e, B.d)),
           RAdd(RMul(A.d, B.b), RMul(A.e, B.e)),
           RAdd(RAdd(RMul(A.d, B.c), RMul(A.e, B.f)), A.f))

(***************************************************************************)
(* Window (_windows.py).                                                   *)
(***************************************************************************)
\* Window.__post_init__, checking the offsets only
Window_any_size(col_off, row_off, width, height) ==
    IF col_off < 0 \/ row_off < 0 THEN Raise("IndexError")
    ELSE Ok([col_off |-> col_off, row_off |-> row_off,
             width |-> width, height |-> height])

\* Window.__post_init__: the dataclass constructor with its validation
Window(col_off, row_off, width, height) ==
    IF col_off < 0 \/ row_off < 0 THEN Raise("IndexError")
    ELSE IF width <= 0 THEN Raise("WindowError")
    ELSE IF height <= 0 THEN Raise("WindowError")
    ELSE Ok([col_off |-> col_off, row_off |-> row_off,
             width |-> width, height |-> height])

col_stop(w) == w.col_off + w.width
row_stop(w) == w.row_off + w.height

intersection_at_self_offset(self, other) ==
    LET cstop == Min(col_stop(self), col_stop(other))
        rstop == Min(row_stop(self), row_stop(other))
    IN  IF cstop - self.col_off <= 0 \/ rstop - self.row_off <= 0 THEN Raise("WindowError")
        ELSE Window(self.col_off, self.row_off, cstop - self.col_off, rstop - self.row_off)

\* Window.intersection
intersection(self, other) ==
    LET col_off == Max(self.col_off, other.col_off)
        row_off == Max(self.row_off, other.row_off)
        cstop == Min(col_stop(self), col_stop(other))
        rstop == Min(row_stop(self), row_stop(other))
        width == cstop - col_off
        height == rstop - row_off
    IN  IF width <= 0 \/ height <= 0 THEN Raise("WindowError")
        ELSE Window(col_off, row_off, width, height)

\* the rows or cols argument of from_slices: a tuple of integers, or a slice
\* whose start and stop are integers or None
TupleArg(items) == [form |-> "tuple", items |-> items]
SliceArg(start, stop) == [form |-> "slice", start |-> start, stop |-> stop]

\* from_slices, lines 100-116: the start and stop of one argument
slice_bounds(arg) ==
    IF arg.form = "slice"
    THEN IF IsNone(arg.start) \/ IsNone(arg.stop) THEN Raise("WindowError")
         ELSE Ok(<<Get(arg.start), Get(arg.stop)>>)
    ELSE IF Len(arg.items) # 2 THEN Raise("WindowError")
         ELSE Ok(arg.items)

\* from_slices, lines 118-123, on the bounds of the rows and of the cols
window_of_bounds(r, c) ==
    IF ~r.ok THEN r
    ELSE IF ~c.ok THEN c
    ELSE Window(Get(c.val)[1], Get(r.val)[1],
                Max(Get(c.val)[2] - Get(c.val)[1], 0),
                Max(Get(r.val)[2] - Get(r.val)[1], 0))

\* Window.from_slices
from_slices(rows, cols) == window_of_bounds(slice_bounds(rows), slice_bounds(cols))

\* Window._crop
Window_crop(self, h, w) ==
    LET row_start == Min(Max(self.row_off, 0), h)
        col_start == Min(Max(self.col_off, 0), w)
        rstop == Max(0, Min(row_stop(self), h))
        cstop == Max(0, Min(col_stop(self), w))
    IN  Window(col_start, row_start, cstop - col_start, rstop - row_start)

(***************************************************************************)
(* Image directories, as the TIFF layer hands them over.                   *)
(***************************************************************************)
TransparencyMask == "TransparencyMask"

\* The geo keys of a primary directory (an EPSG-coded projected CRS).
\* a GeoKeyDirectory with no key set (model_type 0: no model type)
NoGeoKeys ==
    [model_type |-> 0, projected_type |-> None, geographic_type |-> None,
     geog_citation |-> None, geog_geodetic_datum |-> None,
     geog_prime_meridian |-> None, geog_prime_meridian_long |-> None,
     geog_angular_units |-> None, geog_ellipsoid |-> None,
     geog_semi_major_axis |-> None, geog_semi_minor_axis |-> None,
     geog_inv_flattening |-> None, proj_citation |-> None,
     proj_coord_trans |-> None, proj_linear_units |-> None,
     proj_nat_origin_lat |-> None, proj_nat_origin_long |-> None,
     proj_scale_at_nat_origin |-> None, proj_false_easting |-> None,
     proj_false_northing |-> None, proj_center_lat |-> None,
     proj_center_long |-> None, proj_azimuth_angle |-> None,
     proj_scale_at_center |-> None, proj_center_easting |-> None,
     proj_center_northing |-> None, proj_false_origin_lat |-> None,
     proj_false_origin_long |-> None, proj_std_parallel1 |-> None,
     proj_std_parallel2 |-> None, proj_false_origin_easting |-> None,
     proj_false_origin_northing |-> None, proj_straight_vert_pole_long |-> None]

GeoKeys == [NoGeoKeys EXCEPT !.model_type = 1, !.projected_type = Some(3857)]

IFD(w, h, tw, th, spp, planar, photo, subfile) ==
    [image_width |-> w, image_height |-> h,
     tile_width |-> Some(tw), tile_height |-> Some(th),
     samples_per_pixel |-> spp,
     planar_configuration |-> planar,
     photometric_interpretation |-> photo,
     new_subfile_type |-> subfile,
     gdal_nodata |-> None,
     geo_key_directory |-> None,
     model_tiepoint |-> None,
     model_pixel_scale |-> None,
     model_transformation |-> None]

\* A primary directory: geo keys, a tiepoint and a pixel scale.
PrimaryIFD(w, h, tw, th, spp, planar, photo) ==
    [IFD(w, h, tw, th, spp, planar, photo, None) EXCEPT
        !.geo_key_directory = Some(GeoKeys),
        !.model_tiepoint = Some(<<0, 0, 0, 100, 200, 0>>),
        !.model_pixel_scale = Some(<<10, 20, 0>>)]

\* n & 4 != 0 on a non-negative integer
HasBit4(n) == (n \div 4) % 2 = 1

\* is_mask_ifd, by the mask bit alone
is_mask_ifd_by_bit_only(ifd) ==
    /\ ~IsNone(ifd.new_subfile_type)
    /\ HasBit4(Get(ifd.new_subfile_type))

\* is_mask_ifd
is_mask_ifd(ifd) ==
    /\ ~IsNone(ifd.new_subfile_type)
    /\ HasBit4(Get(ifd.new_subfile_type))
    /\ ifd.photometric_interpretation = TransparencyMask

(***************************************************************************)
(* A Python dict: its keys in insertion order and its mapping.             *)
(***************************************************************************)
EmptyDict == [keys |-> <<>>, val |-> <<>>]
DictHas(d, k) == \E i \in 1..Len(d.keys) : d.keys[i] = k
DictIndex(d, k) == CHOOSE i \in 1..Len(d.keys) : d.keys[i] = k
DictGet(d, k) == IF DictHas(d, k) THEN Some(d.val[DictIndex(d, k)]) ELSE None
\* d[k] = v that leaves a key already in d alone
DictSet_keeping_first(d, k, v) ==
    IF DictHas(d, k) THEN d
    ELSE [keys |-> Append(d.keys, k), val |-> Append(d.val, v)]

\* d[k] = v
DictSet(d, k, v) ==
    IF DictHas(d, k)
    THEN [d EXCEPT !.val[DictIndex(d, k)] = v]
    ELSE [keys |-> Append(d.keys, k), val |-> Append(d.val, v)]

(***************************************************************************)
(* GeoTIFF.__init__: classify the directories after the first.             *)
(***************************************************************************)
Dims(ifd) == <<ifd.image_width, ifd.image_height>>
Area(d) == d[1] * d[2]

\* the loop over tiff.ifds[1:]; p is the 1-based position, p - 1 the index
RECURSIVE classify(_, _, _)
classify(ifds, p, acc) ==
    IF p > Len(ifds) THEN acc
    ELSE IF is_mask_ifd(ifds[p])
         THEN classify(ifds, p + 1,
                  [acc EXCEPT !.mask_ifds = DictSet(@, Dims(ifds[p]), p - 1)])
         ELSE classify(ifds, p + 1,
                  [acc EXCEPT !.data_ifds = DictSet(@, Dims(ifds[p]), p - 1)])

\* sorted(keys, key=lambda d: d[0] * d[1], reverse=True): a stable sort, so
\* keys of equal area keep their order
RECURSIVE insert_sorted(_, _)
insert_sorted(s, k) ==
    IF s = <<>> THEN <<k>>
    ELSE IF Area(Head(s)) >= Area(k) THEN <<Head(s)>> \o insert_sorted(Tail(s), k)
    ELSE <<k>> \o s

RECURSIVE sorted_dims_ascending(_)
sorted_dims_ascending(keys) ==
    IF keys = <<>> THEN <<>>
    ELSE LET rest == sorted_dims_ascending(Tail(keys))
             k == Head(keys)
             lower == SelectSeq(rest, LAMBDA x : Area(x) < Area(k))
             upper == SelectSeq(rest, LAMBDA x : Area(x) >= Area(k))
         IN  lower \o <<k>> \o upper

RECURSIVE sorted_dims_from(_, _)
sorted_dims_from(keys, acc) ==
    IF keys = <<>> THEN acc
    ELSE sorted_dims_from(Tail(keys), insert_sorted(acc, Head(keys)))

sorted_dims(keys) == sorted_dims_from(keys, <<>>)

\* the mask attached to a view of dimensions dims: mask_ifds.get(dims)
mask_for_any(mask_ifds, dims) ==
    IF Len(mask_ifds.keys) > 0 THEN Some(mask_ifds.val[1]) ELSE None

mask_for(mask_ifds, dims) == DictGet(mask_ifds, dims)

\* Overview._create
Overview_create(ifd, mask_ifd) == [ifd |-> ifd, mask_ifd |-> mask_ifd]

GeoTIFF_init(ifds) ==
    IF Len(ifds) = 0 THEN Raise("IndexError")          \* tiff.ifds[0]
    ELSE IF IsNone(ifds[1].geo_key_directory) THEN Raise("ValueError")
    ELSE
      LET cls == classify(ifds, 2, [data_ifds |-> EmptyDict, mask_ifds |-> EmptyDict])
          dims == sorted_dims(cls.data_ifds.keys)
      IN  Ok([primary_ifd |-> 0,
              gkd |-> Get(ifds[1].geo_key_directory),
              mask_ifd |-> mask_for(cls.mask_ifds, Dims(ifds[1])),
              overviews |-> [i \in 1..Len(dims) |->
                                Overview_create(Get(DictGet(cls.data_ifds, dims[i])),
                                                mask_for(cls.mask_ifds, dims[i]))],
              crs |-> None])

(***************************************************************************)
(* Opening: every sequence of up to MaxIfds directories.                   *)
(***************************************************************************)
MaxIfds == 3

OpenDims == {<<4, 4>>, <<4, 2>>, <<2, 4>>, <<2, 2>>}

\* a first directory with its geo keys, and the same directory without them
OpenPrimaries ==
    {[PrimaryIFD(d[1], d[2], 2, 2, 1, "Chunky", "BlackIsZero")
         EXCEPT !.geo_key_directory = IF g THEN @ ELSE None] :
        d \in OpenDims, g \in BOOLEAN}

OpenFollowers ==
    {IFD(d[1], d[2], 2, 2, 1, "Chunky", ph, st) :
        d \in OpenDims,
        ph \in {"BlackIsZero", TransparencyMask},
        st \in {None, Some(1), Some(4), Some(5)}}

RECURSIVE SeqsUpTo(_, _)
SeqsUpTo(S, n) ==
    IF n = 0 THEN {<<>>}
    ELSE LET shorter == SeqsUpTo(S, n - 1)
         IN  shorter \cup {Append(s, x) : s \in {t \in shorter : Len(t) = n - 1}, x \in S}

\* the directory lists a TIFF can hold, the empty one included
OpenInputs ==
    {<<>>} \cup
    {<<p>> \o s : p \in OpenPrimaries, s \in SeqsUpTo(OpenFollowers, MaxIfds - 1)}

\* resolves and accesses count the runs of the geo-key resolver and the reads
\* of GeoTIFF.crs (2 stands for two or more); last_crs is what the last read
\* of GeoTIFF.crs returned
Unopened ==
    [status |-> "unopened", exc |-> "", obj |-> None,
     resolves |-> 0, accesses |-> 0, last_crs |-> None]
\* no call in progress; the record of a call has the same fields throughout
Idle ==
    [op |-> "idle", view |-> 0, xs |-> <<>>, ys |-> <<>>, window |-> None,
     win |-> None, boundless |-> TRUE, pc |-> "returned", fetched |-> {},
     decoded |-> {}, data_slots |-> <<>>, mask_slots |-> <<>>, reordered |-> FALSE,
     failed |-> None]
NoResult == [kind |-> "none", exc |-> "", val |-> None]

Opened(ifds) ==
    LET r == GeoTIFF_init(ifds)
    IN  IF r.ok THEN [Unopened EXCEPT !.status = "open", !.obj = r.val]
        ELSE [Unopened EXCEPT !.status = "error", !.exc = r.exc]

InitOpen ==
    /\ tiff \in OpenInputs
    /\ geotiff = Unopened
    /\ call = Idle
    /\ result = NoResult

\* GeoTIFF(tiff): the constructor runs on the parsed TIFF
Open ==
    /\ geotiff.status = "unopened"
    /\ geotiff' = Opened(tiff)
    /\ UNCHANGED <<tiff, call, result>>

NextOpen == Open

SpecOpen == InitOpen /\ [][NextOpen]_vars

IsOpen == geotiff.status = "open"
G == Get(geotiff.obj)

NumOverviews == Len(G.overviews)
OvDims(i) == Dims(tiff[G.overviews[i].ifd + 1])

\* the positions (0-based) after the first that is_mask_ifd classifies as masks
MaskIndices == {p - 1 : p \in {q \in 2..Len(tiff) : is_mask_ifd(tiff[q])}}
DataIndices == {p - 1 : p \in {q \in 2..Len(tiff) : ~is_mask_ifd(tiff[q])}}

\* C9 as claimed: consecutive overviews have strictly decreasing pixel area.
C9_StrictlyDecreasingArea ==
    IsOpen => \A i \in 1..(NumOverviews - 1) : Area(OvDims(i)) > Area(OvDims(i + 1))

\* C9 as amended: consecutive overviews have non-increasing pixel area, and
\* the area strictly decreases whenever no two distinct dimension pairs among
\* the data directories have the same area.
C9_NonIncreasingArea ==
    IsOpen =>
      /\ \A i \in 1..(NumOverviews - 1) : Area(OvDims(i)) >= Area(OvDims(i + 1))
      /\ (\A p, q \in DataIndices :
              Area(Dims(tiff[p + 1])) = Area(Dims(tiff[q + 1]))
                  => Dims(tiff[p + 1]) = Dims(tiff[q + 1]))
         => \A i \in 1..(NumOverviews - 1) : Area(OvDims(i)) > Area(OvDims(i + 1))

\* C9 witness: an opened file with two overviews of different area whose finer
\* directory comes later in the file, so that the sort had to reorder them.
C9_Witness ==
    /\ IsOpen
    /\ NumOverviews = 2
    /\ Area(OvDims(1)) > Area(OvDims(2))
    /\ G.overviews[1].ifd > G.overviews[2].ifd

\* C11 as claimed: constructing a GeoTIFF fails exactly when the directory
\* list is empty or the first directory has no geo keys, and every failure is
\* the ValueError of the open check: an empty list raises no other exception.
\* A failed construction leaves no GeoTIFF.
C11_OpenFailsWithValueError ==
    geotiff.status # "unopened" =>
      LET bad == IF Len(tiff) = 0 THEN TRUE ELSE IsNone(tiff[1].geo_key_directory)
      IN  /\ geotiff.status = "error" <=> bad
          /\ geotiff.status = "error" => geotiff.exc = "ValueError" /\ IsNone(geotiff.obj)

\* the mask directory attached to view v (0 the primary, i the i-th overview)
AttachedMask(v) == IF v = 0 THEN G.mask_ifd ELSE G.overviews[v].mask_ifd
DataIfdOf(v) == IF v = 0 THEN G.primary_ifd ELSE G.overviews[v].ifd
Views == 0..NumOverviews

\* C10: a view has a mask directory exactly when some mask IFD has the
\* dimensions of the view's data directory; the attached directory is then a
\* mask IFD of exactly those dimensions; a mask IFD whose dimensions match
\* neither the primary nor any data IFD is attached to no view.
C10_MaskMatchesDims ==
    IsOpen =>
      /\ \A v \in Views :
            LET d == Dims(tiff[DataIfdOf(v) + 1])
            IN  /\ ~IsNone(AttachedMask(v))
                     <=> \E m \in MaskIndices : Dims(tiff[m + 1]) = d
                /\ ~IsNone(AttachedMask(v)) =>
                     /\ Get(AttachedMask(v)) \in MaskIndices
                     /\ Dims(tiff[Get(AttachedMask(v)) + 1]) = d
      /\ \A m \in MaskIndices :
            (/\ Dims(tiff[m + 1]) # Dims(tiff[1])
             /\ \A p \in DataIndices : Dims(tiff[p + 1]) # Dims(tiff[m + 1]))
            => \A v \in Views : AttachedMask(v) # Some(m)

\* C10 witness: a primary with a mask attached, and a second mask IFD that
\* matches no data directory.
C10_Witness ==
    /\ IsOpen
    /\ ~IsNone(G.mask_ifd)
    /\ \E m \in MaskIndices :
          /\ Dims(tiff[m + 1]) # Dims(tiff[1])
          /\ \A p \in DataIndices : Dims(tiff[p + 1]) # Dims(tiff[m + 1])

(***************************************************************************)
(* The stored samples, and the buffers the TIFF layer decodes.             *)
(* A numpy array is [dtype, shape, el], el a function of the index tuples. *)
(***************************************************************************)
Indices(sh) ==
    IF Len(sh) = 2 THEN (0..(sh[1] - 1)) \X (0..(sh[2] - 1))
    ELSE (0..(sh[1] - 1)) \X (0..(sh[2] - 1)) \X (0..(sh[3] - 1))

NdArray(dtype, sh, F(_)) ==
    [dtype |-> dtype, shape |-> sh, el |-> [t \in Indices(sh) |-> F(t)]]

\* The sample stored in data directory idx at band b, row r, column c.
StoredSample(idx, b, r, c) == 1 + idx * 1000 + b * 100 + r * 10 + c

\* The sample stored in mask directory idx at row r, column c: 0, 1 or 255.
StoredMask(idx, r, c) ==
    LET k == (idx + r + 2 * c) % 3
    IN  IF k = 0 THEN 0 ELSE IF k = 1 THEN 255 ELSE 1

\* A tile is stored at its full size; what lies outside the image is padding.
StoredAt(ifds, idx, b, r, c) ==
    LET ifd == ifds[idx + 1]
    IN  IF r >= ifd.image_height \/ c >= ifd.image_width THEN 0
        ELSE IF is_mask_ifd(ifd) THEN StoredMask(idx, r, c)
        ELSE StoredSample(idx, b, r, c)

\* TIFF.fetch_tiles(xs, ys, ifd_index): one handle per requested tile, in the
\* order of the request
tiff_fetch_tiles(xs, ys, idx) ==
    [i \in 1..Len(xs) |-> [ifd |-> idx, x |-> xs[i], y |-> ys[i]]]

\* Tile.decode(): the buffer in the native TIFF order, (height, width, bands)
\* when chunky and (bands, height, width) when planar
decode(ifds, h) ==
    LET ifd == ifds[h.ifd + 1]
        th == Get(ifd.tile_height)
        tw == Get(ifd.tile_width)
        spp == ifd.samples_per_pixel
    IN  IF ifd.planar_configuration = "Chunky"
        THEN NdArray("uint8", <<th, tw, spp>>,
                 LAMBDA t : StoredAt(ifds, h.ifd, t[3], h.y * th + t[1], h.x * tw + t[2]))
        ELSE NdArray("uint8", <<spp, th, tw>>,
                 LAMBDA t : StoredAt(ifds, h.ifd, t[1], h.y * th + t[2], h.x * tw + t[3]))

\* np.moveaxis(a, -1, 0): (H, W, C) to (C, H, W)
moveaxis_last_first(a) ==
    NdArray(a.dtype, <<a.shape[3], a.shape[1], a.shape[2]>>,
            LAMBDA t : a.el[<<t[2], t[3], t[1]>>])

\* a.astype(np.bool_)
astype_bool(a) ==
    NdArray("bool", a.shape, LAMBDA t : a.el[t] # 0)

\* np.squeeze(a, axis=2) of an (H, W, 1) array
squeeze_axis2(a) ==
    NdArray(a.dtype, <<a.shape[1], a.shape[2]>>, LAMBDA t : a.el[<<t[1], t[2], 0>>])

(***************************************************************************)
(* Array._create (_array.py): data to (bands, height, width), the mask     *)
(* squeezed and cast to bool.  Its assertions (3-D buffers, a mask of one  *)
(* sample) hold of every buffer decode yields here.                        *)
(***************************************************************************)
Array_create_swapped(data, mask, planar_configuration, transform, crs, nodata) ==
    LET data_arr == IF planar_configuration = "Chunky"
                    THEN moveaxis_last_first(data) ELSE data
    IN  [data |-> data_arr,
         mask |-> IF IsNone(mask) THEN None
                  ELSE Some(squeeze_axis2(astype_bool(Get(mask)))),
         width |-> data_arr.shape[2], height |-> data_arr.shape[3],
         count |-> Some(data_arr.shape[1]),
         transform |-> transform, crs |-> crs, nodata |-> nodata]

Array_create(data, mask, planar_configuration, transform, crs, nodata) ==
    LET data_arr == IF planar_configuration = "Chunky"
                    THEN moveaxis_last_first(data) ELSE data
    IN  [data |-> data_arr,
         mask |-> IF IsNone(mask) THEN None
                  ELSE Some(squeeze_axis2(astype_bool(Get(mask)))),
         width |-> data_arr.shape[3], height |-> data_arr.shape[2],
         count |-> Some(data_arr.shape[1]),
         transform |-> transform, crs |-> crs, nodata |-> nodata]

(***************************************************************************)
(* The properties of a view: 0 is the GeoTIFF (its primary image), i > 0   *)
(* its i-th overview.                                                      *)
(***************************************************************************)
ViewIFD(v) == tiff[DataIfdOf(v) + 1]

width(v) == ViewIFD(v).image_width
height(v) == ViewIFD(v).image_height

\* GeoTIFF.tile_width raises ValueError on an untiled image; every image here
\* is tiled.  Overview.tile_width is `tile_width or width`.
tile_width(v) ==
    IF v = 0 THEN Get(ViewIFD(v).tile_width)
    ELSE IF IsNone(ViewIFD(v).tile_width) \/ ViewIFD(v).tile_width = Some(0)
         THEN width(v) ELSE Get(ViewIFD(v).tile_width)

tile_height(v) ==
    IF v = 0 THEN Get(ViewIFD(v).tile_height)
    ELSE IF IsNone(ViewIFD(v).tile_height) \/ ViewIFD(v).tile_height = Some(0)
         THEN height(v) ELSE Get(ViewIFD(v).tile_height)

\* GeoTIFF.count
count(v) == ViewIFD(v).samples_per_pixel

\* float(s) on the GDAL_NODATA strings of the files below
PyFloat(s) == CASE s = "0" -> 0 [] s = "255" -> 255 [] OTHER -> 0 - 9999

\* GeoTIFF.nodata
GeoTIFF_nodata ==
    LET nd == tiff[G.primary_ifd + 1].gdal_nodata
    IN  IF IsNone(nd) THEN None ELSE Some(PyFloat(Get(nd)))

\* TiledMixin.tile_count
CeilDiv(a, b) == (a + b - 1) \div b
tile_count(v) == <<CeilDiv(width(v), tile_width(v)), CeilDiv(height(v), tile_height(v))>>

\* GeoTIFF.transform, looking at model_transformation first
GeoTIFF_transform_matrix_first(ifd) ==
    IF ~IsNone(ifd.model_transformation) /\ Len(Get(ifd.model_transformation)) > 0
    THEN LET m == Get(ifd.model_transformation)
         IN  Ok(Affine(RInt(m[1]), RInt(m[2]), RInt(m[4]),
                       RInt(m[5]), RInt(m[6]), RInt(m[8])))
    ELSE IF /\ ~IsNone(ifd.model_tiepoint) /\ Len(Get(ifd.model_tiepoint)) > 0
            /\ ~IsNone(ifd.model_pixel_scale) /\ Len(Get(ifd.model_pixel_scale)) > 0
    THEN LET tie_points == Get(ifd.model_tiepoint)
             model_scale == Get(ifd.model_pixel_scale)
         IN  Ok(Affine(RInt(model_scale[1]), RInt(0), RInt(tie_points[4]),
                       RInt(0), RInt(-model_scale[2]), RInt(tie_points[5])))
    ELSE Raise("ValueError")

\* GeoTIFF.transform
GeoTIFF_transform(ifd) ==
    IF /\ ~IsNone(ifd.model_tiepoint) /\ Len(Get(ifd.model_tiepoint)) > 0
       /\ ~IsNone(ifd.model_pixel_scale) /\ Len(Get(ifd.model_pixel_scale)) > 0
    THEN LET tie_points == Get(ifd.model_tiepoint)
             model_scale == Get(ifd.model_pixel_scale)
         IN  Ok(Affine(RInt(model_scale[1]), RInt(0), RInt(tie_points[4]),
                       RInt(0), RInt(-model_scale[2]), RInt(tie_points[5])))
    ELSE IF ~IsNone(ifd.model_transformation) /\ Len(Get(ifd.model_transformation)) > 0
    THEN LET m == Get(ifd.model_transformation)
         IN  Ok(Affine(RInt(m[1]), RInt(m[2]), RInt(m[4]),
                       RInt(m[5]), RInt(m[6]), RInt(m[8])))
    ELSE Raise("ValueError")

Overview_transform_scaled_down(v) ==
    Affine_mul(Get(GeoTIFF_transform(tiff[1]).val),
               Affine_scale(Rat(width(v), width(0)), Rat(height(v), height(0))))

\* Overview.transform
Overview_transform(v) ==
    LET full_transform == Get(GeoTIFF_transform(tiff[1]).val)
        scale_x == Rat(width(0), width(v))
        scale_y == Rat(height(0), height(v))
    IN  Affine_mul(full_transform, Affine_scale(scale_x, scale_y))

transform(v) ==
    IF v = 0 THEN Get(GeoTIFF_transform(tiff[1]).val) ELSE Overview_transform(v)

\* the per-tile transform of fetch_tile and fetch_tiles
tile_transform(v, x, y) ==
    Affine_mul(transform(v), Affine_translation(x * tile_width(v), y * tile_height(v)))

(***************************************************************************)
(* crs_from_geo_keys (_crs.py).  A pyproj CRS is modelled by what it was   *)
(* built from: an EPSG code, or the PROJJSON dict handed to from_json_dict.*)
(***************************************************************************)
MODEL_TYPE_PROJECTED == 1
MODEL_TYPE_GEOGRAPHIC == 2
USER_DEFINED == 32767

\* CRS.from_epsg(epsg)
CRS_from_epsg(epsg) == [kind |-> "EPSG", code |-> epsg]

\* `x is not None and x != _USER_DEFINED`
IsCoded(x) == ~IsNone(x) /\ Get(x) # USER_DEFINED

\* `x or default`, of an optional citation
OrDefault(x, default) == IF IsNone(x) THEN default ELSE Get(x)

\* _build_ellipsoid_params
build_ellipsoid_params(gkd) ==
    IF IsCoded(gkd.geog_ellipsoid)
    THEN Ok([name |-> <<"EPSG ellipsoid", Get(gkd.geog_ellipsoid)>>,
             semi_major_axis |-> gkd.geog_semi_major_axis,
             inverse_flattening |-> gkd.geog_inv_flattening,
             semi_minor_axis |-> IF IsNone(gkd.geog_inv_flattening)
                                 THEN gkd.geog_semi_minor_axis ELSE None])
    ELSE IF IsNone(gkd.geog_semi_major_axis) THEN Raise("ValueError")
    ELSE IF ~IsNone(gkd.geog_inv_flattening)
    THEN Ok([name |-> "User-defined",
             semi_major_axis |-> gkd.geog_semi_major_axis,
             inverse_flattening |-> gkd.geog_inv_flattening,
             semi_minor_axis |-> None])
    ELSE IF ~IsNone(gkd.geog_semi_minor_axis)
    THEN Ok([name |-> "User-defined",
             semi_major_axis |-> gkd.geog_semi_major_axis,
             inverse_flattening |-> None,
             semi_minor_axis |-> gkd.geog_semi_minor_axis])
    ELSE Raise("ValueError")

\* _geographic_cs: the angular unit of the two axes
geographic_cs(gkd) ==
    [subtype |-> "ellipsoidal",
     unit |-> IF gkd.geog_angular_units = Some(9101) THEN "radian"
              ELSE IF gkd.geog_angular_units = Some(9105) THEN "grad"
              ELSE "degree"]

\* _projected_cs: the linear unit of the two axes
projected_cs(gkd) ==
    [subtype |-> "Cartesian",
     unit |-> IF gkd.proj_linear_units = Some(9002) THEN "foot"
              ELSE IF gkd.proj_linear_units = Some(9003) THEN "US survey foot"
              ELSE "metre"]

\* _build_user_defined_geographic_crs
build_user_defined_geographic_crs(gkd) ==
    LET ellipsoid == build_ellipsoid_params(gkd)
        prime_meridian ==
            IF IsCoded(gkd.geog_prime_meridian)
            THEN [name |-> <<"EPSG", Get(gkd.geog_prime_meridian)>>, longitude |-> 0]
            ELSE IF ~IsNone(gkd.geog_prime_meridian_long)
            THEN [name |-> "User-defined", longitude |-> Get(gkd.geog_prime_meridian_long)]
            ELSE [name |-> "Greenwich", longitude |-> 0]
    IN  IF ~ellipsoid.ok THEN ellipsoid
        ELSE IF IsCoded(gkd.geog_geodetic_datum)
        THEN Ok([kind |-> "GeographicCRS",
                 name |-> OrDefault(gkd.geog_citation, "User-defined"),
                 datum |-> [name |-> <<"Unknown datum based upon EPSG",
                                       Get(gkd.geog_geodetic_datum), "ellipsoid">>],
                 coordinate_system |-> geographic_cs(gkd)])
        ELSE Ok([kind |-> "GeographicCRS",
                 name |-> OrDefault(gkd.geog_citation, "User-defined"),
                 datum |-> [name |-> OrDefault(gkd.geog_citation, "User-defined"),
                            ellipsoid |-> Get(ellipsoid.val),
                            prime_meridian |-> prime_meridian],
                 coordinate_system |-> geographic_cs(gkd)])

\* _parse_geographic_crs
parse_geographic_crs(gkd) ==
    IF IsCoded(gkd.geographic_type) THEN Ok(CRS_from_epsg(Get(gkd.geographic_type)))
    ELSE build_user_defined_geographic_crs(gkd)

\* the coordinate transformation codes _build_conversion knows (GeoKey 3075)
CoordTransCodes == (1..12) \cup {14, 15, 16, 17, 18, 21, 22, 24, 26, 27}

\* _param(name, value, default): the value of the key, the default when it
\* is None
param(name, value, default) ==
    [name |-> name, value |-> IF ~IsNone(value) THEN Get(value) ELSE default]

\* Python's `a or b` of two optional numbers: a when it is set and not zero
PyOr(a, b) == IF ~IsNone(a) /\ Get(a) # 0 THEN a ELSE b

\* the parameter lists _build_conversion repeats
natural_origin_scaled(gkd) ==
    <<param("Latitude of natural origin", gkd.proj_nat_origin_lat, 0),
      param("Longitude of natural origin", gkd.proj_nat_origin_long, 0),
      param("Scale factor at natural origin", gkd.proj_scale_at_nat_origin, 1),
      param("False easting", gkd.proj_false_easting, 0),
      param("False northing", gkd.proj_false_northing, 0)>>

natural_origin(gkd) ==
    <<param("Latitude of natural origin", gkd.proj_nat_origin_lat, 0),
      param("Longitude of natural origin", gkd.proj_nat_origin_long, 0),
      param("False easting", gkd.proj_false_easting, 0),
      param("False northing", gkd.proj_false_northing, 0)>>

center(gkd) ==
    <<param("Latitude of natural origin", gkd.proj_center_lat, 0),
      param("Longitude of natural origin", gkd.proj_center_long, 0),
      param("False easting", gkd.proj_false_easting, 0),
      param("False northing", gkd.proj_false_northing, 0)>>

center_scaled(gkd) ==
    <<param("Latitude of natural origin", gkd.proj_center_lat, 0),
      param("Longitude of natural origin", gkd.proj_center_long, 0),
      param("Scale factor at natural origin", gkd.proj_scale_at_center, 1),
      param("False easting", gkd.proj_false_easting, 0),
      param("False northing", gkd.proj_false_northing, 0)>>

false_origin(gkd) ==
    <<param("Latitude of false origin", gkd.proj_false_origin_lat, 0),
      param("Longitude of false origin", gkd.proj_false_origin_long, 0),
      param("Latitude of 1st standard parallel", gkd.proj_std_parallel1, 0),
      param("Latitude of 2nd standard parallel", gkd.proj_std_parallel2, 0),
      param("Easting at false origin", gkd.proj_false_origin_easting, 0),
      param("Northing at false origin", gkd.proj_false_origin_northing, 0)>>

\* _build_conversion, the if/elif chain on ct: the method name and the
\* parameters, or the error of the final else
conversion_of(gkd, ct) ==
    IF ct = 1 THEN Ok(<<"Transverse Mercator", natural_origin_scaled(gkd)>>)
    ELSE IF ct = 2
    THEN Ok(<<"Transverse Mercator (South Orientated)", natural_origin_scaled(gkd)>>)
    ELSE IF ct \in {3, 4, 5, 6}
    THEN Ok(<<"Hotine Oblique Mercator (variant B)",
              <<param("Latitude of projection centre", gkd.proj_center_lat, 0),
                param("Longitude of projection centre", gkd.proj_center_long, 0),
                param("Azimuth of initial line", gkd.proj_azimuth_angle, 0),
                param("Angle from Rectified to Skew Grid", gkd.proj_azimuth_angle, 0),
                param("Scale factor on initial line", gkd.proj_scale_at_center, 1),
                param("Easting at projection centre", gkd.proj_center_easting, 0),
                param("Northing at projection centre", gkd.proj_center_northing, 0)>> >>)
    ELSE IF ct = 7 THEN Ok(<<"Mercator (variant A)", natural_origin_scaled(gkd)>>)
    ELSE IF ct = 8 THEN Ok(<<"Lambert Conic Conformal (2SP)", false_origin(gkd)>>)
    ELSE IF ct = 9
    THEN Ok(<<"Lambert Conic Conformal (1SP)", natural_origin_scaled(gkd)>>)
    ELSE IF ct = 10 THEN Ok(<<"Lambert Azimuthal Equal Area", center(gkd)>>)
    ELSE IF ct = 11 THEN Ok(<<"Albers Equal Area", false_origin(gkd)>>)
    ELSE IF ct = 12 THEN Ok(<<"Modified Azimuthal Equidistant", center(gkd)>>)
    ELSE IF ct = 14 THEN Ok(<<"Stereographic", center_scaled(gkd)>>)
    ELSE IF ct = 15
    THEN Ok(<<"Polar Stereographic (variant B)",
              <<param("Latitude of standard parallel",
                      PyOr(gkd.proj_nat_origin_lat, gkd.proj_std_parallel1), 0),
                param("Longitude of origin",
                      PyOr(gkd.proj_straight_vert_pole_long, gkd.proj_nat_origin_long), 0),
                param("False easting", gkd.proj_false_easting, 0),
                param("False northing", gkd.proj_false_northing, 0)>> >>)
    ELSE IF ct = 16 THEN Ok(<<"Oblique Stereographic", center_scaled(gkd)>>)
    ELSE IF ct = 17
    THEN Ok(<<"Equidistant Cylindrical",
              <<param("Latitude of 1st standard parallel",
                      PyOr(gkd.proj_std_parallel1, gkd.proj_center_lat), 0),
                param("Longitude of natural origin", gkd.proj_center_long, 0),
                param("False easting", gkd.proj_false_easting, 0),
                param("False northing", gkd.proj_false_northing, 0)>> >>)
    ELSE IF ct = 18 THEN Ok(<<"Cassini-Soldner", natural_origin(gkd)>>)
    ELSE IF ct = 22 THEN Ok(<<"American Polyconic", natural_origin(gkd)>>)
    ELSE IF ct = 24
    THEN Ok(<<"Sinusoidal",
              <<param("Longitude of natural origin", gkd.proj_center_long, 0),
                param("False easting", gkd.proj_false_easting, 0),
                param("False northing", gkd.proj_false_northing, 0)>> >>)
    ELSE IF ct = 21 THEN Ok(<<"Orthographic", center(gkd)>>)
    ELSE IF ct = 26 THEN Ok(<<"New Zealand Map Grid", natural_origin(gkd)>>)
    ELSE IF ct = 27
    THEN Ok(<<"Transverse Mercator (South Orientated)", natural_origin_scaled(gkd)>>)
    ELSE Raise("ValueError")

\* _build_conversion, keeping the initial name "User-defined" where the code
\* raises
\* the Conversion of a method name and its parameters, lines 446-450 of _crs.py
named_conversion(c) ==
    IF c.ok
    THEN Ok([name |-> Get(c.val)[1], method |-> [name |-> Get(c.val)[1]],
             parameters |-> Get(c.val)[2]])
    ELSE c

\* _build_conversion, falling back to an unnamed conversion
build_conversion_unchecked(gkd) ==
    LET c == IF IsNone(gkd.proj_coord_trans) THEN Raise("ValueError")
             ELSE conversion_of(gkd, Get(gkd.proj_coord_trans))
    IN  IF c.ok
        THEN Ok([name |-> Get(c.val)[1], method |-> [name |-> Get(c.val)[1]],
                 parameters |-> Get(c.val)[2]])
        ELSE Ok([name |-> "User-defined", method |-> [name |-> "User-defined"],
                 parameters |-> <<>>])

\* _build_conversion
build_conversion(gkd) ==
    IF IsNone(gkd.proj_coord_trans) THEN Raise("ValueError")
    ELSE named_conversion(conversion_of(gkd, Get(gkd.proj_coord_trans)))

\* ProjectedCRS(...) on the base CRS and the conversion, once both were built
projected_crs_of(gkd, base_crs, conversion) ==
    IF ~base_crs.ok THEN base_crs
    ELSE IF ~conversion.ok THEN conversion
    ELSE Ok([kind |-> "ProjectedCRS",
             name |-> OrDefault(gkd.proj_citation, "User-defined"),
             base_crs |-> Get(base_crs.val),
             conversion |-> Get(conversion.val),
             coordinate_system |-> projected_cs(gkd)])

\* _build_user_defined_projected_crs
build_user_defined_projected_crs(gkd) ==
    projected_crs_of(gkd, parse_geographic_crs(gkd), build_conversion(gkd))

\* _parse_projected_crs, taking the user-defined code for an EPSG code
parse_projected_crs_any_code(gkd) ==
    IF ~IsNone(gkd.projected_type) THEN Ok(CRS_from_epsg(Get(gkd.projected_type)))
    ELSE build_user_defined_projected_crs(gkd)

\* _parse_projected_crs
parse_projected_crs(gkd) ==
    IF IsCoded(gkd.projected_type) THEN Ok(CRS_from_epsg(Get(gkd.projected_type)))
    ELSE build_user_defined_projected_crs(gkd)

\* crs_from_geo_keys
crs_from_geo_keys(gkd) ==
    IF gkd.model_type = MODEL_TYPE_PROJECTED THEN parse_projected_crs(gkd)
    ELSE IF gkd.model_type = MODEL_TYPE_GEOGRAPHIC THEN parse_geographic_crs(gkd)
    ELSE Raise("ValueError")

\* GeoTIFF.crs once crs_from_geo_keys has returned or raised r: the value is
\* stored in self._crs
crs_resolved(obj, r) ==
    IF r.ok
    THEN [val |-> Get(r.val), obj |-> [obj EXCEPT !.crs = r.val], resolved |-> TRUE]
    ELSE [val |-> r, obj |-> obj, resolved |-> TRUE]

\* GeoTIFF.crs on the instance obj: the value returned (the exception, when
\* crs_from_geo_keys raises one), the instance afterwards, and whether
\* crs_from_geo_keys ran
GeoTIFF_crs_uncached(obj) ==
    LET r == crs_from_geo_keys(obj.gkd)
    IN  [val |-> IF r.ok THEN Get(r.val) ELSE r, obj |-> obj, resolved |-> TRUE]

GeoTIFF_crs_consuming_geo_keys(obj) ==
    IF ~IsNone(obj.crs)
    THEN [val |-> Get(obj.crs), obj |-> obj, resolved |-> FALSE]
    ELSE LET r == crs_from_geo_keys(obj.gkd)
         IN  IF r.ok
             THEN [val |-> Get(r.val),
                   obj |-> [obj EXCEPT !.crs = r.val,
                                       !.gkd = [obj.gkd EXCEPT !.projected_type = None]],
                   resolved |-> TRUE]
             ELSE [val |-> r, obj |-> obj, resolved |-> TRUE]

GeoTIFF_crs(obj) ==
    IF ~IsNone(obj.crs)
    THEN [val |-> Get(obj.crs), obj |-> obj, resolved |-> FALSE]
    ELSE crs_resolved(obj, crs_from_geo_keys(obj.gkd))

\* the value a read of GeoTIFF.crs returns in the current state
crs_value == GeoTIFF_crs(G).val

\* the GeoTIFF g after one read of its crs that went as acc
crs_accessed(g, acc) ==
    [g EXCEPT !.obj = Some(acc.obj),
              !.resolves = IF acc.resolved THEN Min(g.resolves + 1, 2) ELSE g.resolves,
              !.accesses = Min(g.accesses + 1, 2),
              !.last_crs = Some(acc.val)]

\* the GeoTIFF g after n reads of its crs
RECURSIVE after_crs_accesses(_, _)
after_crs_accesses(g, n) ==
    IF n = 0 THEN g
    ELSE after_crs_accesses(crs_accessed(g, GeoTIFF_crs(Get(g.obj))), n - 1)

\* Tile (_tile.py)
Tile(x, y, array) == [x |-> x, y |-> y, array |-> array]

(***************************************************************************)
(* Python slicing and numpy slice assignment.                              *)
(***************************************************************************)
\* a slice bound on an axis of length n: negative bounds count from the end
PyBound(i, n) == IF i < 0 THEN Max(i + n, 0) ELSE Min(i, n)

\* the elements start:stop selects on an axis of length n: <<first, length>>
SliceRange(start, stop, n) ==
    <<PyBound(start, n), Max(PyBound(stop, n) - PyBound(start, n), 0)>>

Offsets(r0, r1, c0, c1) ==
    [row_start |-> r0, row_stop |-> r1, col_start |-> c0, col_stop |-> c1]

\* out[:, d.rows, d.cols] = src[:, s.rows, s.cols] on (bands, height, width)
\* arrays; numpy broadcasts an axis of length 1 and raises ValueError on any
\* other mismatch of the two shapes
SetSlice(out, d, src, s) ==
    LET dr == SliceRange(d.row_start, d.row_stop, out.shape[2])
        dc == SliceRange(d.col_start, d.col_stop, out.shape[3])
        sr == SliceRange(s.row_start, s.row_stop, src.shape[2])
        sc == SliceRange(s.col_start, s.col_stop, src.shape[3])
        dsh == <<out.shape[1], dr[2], dc[2]>>
        ssh == <<src.shape[1], sr[2], sc[2]>>
        pick(k, i) == IF ssh[k] = 1 THEN 0 ELSE i
    IN  IF \E k \in 1..3 : ssh[k] # dsh[k] /\ ssh[k] # 1 THEN Raise("ValueError")
        ELSE Ok([out EXCEPT !.el =
                 [t \in DOMAIN out.el |->
                    IF /\ t[2] >= dr[1] /\ t[2] < dr[1] + dr[2]
                       /\ t[3] >= dc[1] /\ t[3] < dc[1] + dc[2]
                    THEN src.el[<<pick(1, t[1]),
                                  sr[1] + pick(2, t[2] - dr[1]),
                                  sc[1] + pick(3, t[3] - dc[1])>>]
                    ELSE out.el[t]]])

\* a (height, width) array seen as (1, height, width), and back
Lift(a) == NdArray(a.dtype, <<1, a.shape[1], a.shape[2]>>, LAMBDA t : a.el[<<t[2], t[3]>>])
Unlift(a) == NdArray(a.dtype, <<a.shape[2], a.shape[3]>>, LAMBDA t : a.el[<<0, t[1], t[2]>>])

\* out[d.rows, d.cols] = src[s.rows, s.cols] on (height, width) arrays
SetSlice2(out, d, src, s) ==
    LET r == SetSlice(Lift(out), d, Lift(src), s)
    IN  IF r.ok THEN Ok(Unlift(Get(r.val))) ELSE r

\* a[:, 0:h, 0:w] and a[0:h, 0:w], copied
Crop3(a, h, w) ==
    NdArray(a.dtype, <<a.shape[1], Min(h, a.shape[2]), Min(w, a.shape[3])>>, LAMBDA t : a.el[t])
Crop2(a, h, w) ==
    NdArray(a.dtype, <<Min(h, a.shape[1]), Min(w, a.shape[2])>>, LAMBDA t : a.el[t])

(***************************************************************************)
(* fetch_tile and fetch_tiles: what they build once the buffers are        *)
(* decoded.  dec_data and dec_mask are the decoded tile handles.           *)
(***************************************************************************)
\* FetchTileMixin.fetch_tile, after its awaits: the call of Array._create.
\* The call passes no nodata.
fetch_tile_array(v, x, y, dec_data, dec_mask) ==
    Array_create(decode(tiff, dec_data),
                 IF IsNone(dec_mask) THEN None ELSE Some(decode(tiff, Get(dec_mask))),
                 ViewIFD(v).planar_configuration,
                 tile_transform(v, x, y),
                 crs_value,
                 None)

\* Overview.fetch_tile, after its awaits: Array(...) on the raw buffers, with
\* the overview's own width and height; it passes neither count nor nodata.
Overview_fetch_tile_array(v, x, y, dec_data, dec_mask) ==
    [data |-> decode(tiff, dec_data),
     mask |-> IF IsNone(dec_mask) THEN None ELSE Some(decode(tiff, Get(dec_mask))),
     width |-> width(v), height |-> height(v),
     count |-> None,
     transform |-> tile_transform(v, x, y), crs |-> crs_value, nodata |-> None]

\* The clipping of an edge tile when boundless is false.  The fetch_tile under
\* src/ takes no boundless argument; this follows the specification (4.D,
\* fetch_tile, step 6): keep [0:clip_h, 0:clip_w] and update width and height.
clip_to_image_bounds(a, v, x, y) ==
    LET clip_w == Min(a.width, width(v) - x * tile_width(v))
        clip_h == Min(a.height, height(v) - y * tile_height(v))
    IN  IF clip_w = a.width /\ clip_h = a.height THEN a
        ELSE [a EXCEPT !.data = Crop3(a.data, clip_h, clip_w),
                       !.mask = IF IsNone(a.mask) THEN None
                                ELSE Some(Crop2(Get(a.mask), clip_h, clip_w)),
                       !.width = clip_w, !.height = clip_h]

\* asyncio.gather: the result of the i-th awaitable goes to position i,
\* whenever it completes
gather_store_in_completion_order(slots, i, r) ==
    LET free == {j \in 1..Len(slots) : IsNone(slots[j])}
        first == CHOOSE j \in free : \A k \in free : j <= k
    IN  [slots EXCEPT ![first] = Some(r)]

gather_store(slots, i, r) == [slots EXCEPT ![i] = Some(r)]

\* the loop of fetch_tiles over zip(xs, ys, decoded_tiles, decoded_masks),
\* each Array with its grid position (Tile, as read uses it)
fetch_tiles_arrays(v, xs, ys, decoded_tiles, decoded_masks) ==
    [i \in 1..Len(xs) |->
        Tile(xs[i], ys[i],
             fetch_tile_array(v, xs[i], ys[i], Get(decoded_tiles[i]), decoded_masks[i]))]

\* The tiles read() obtains on an overview.  The Overview under src/ has no
\* read; this follows the specification (4.C, 4.D: overviews share the
\* read/fetch contract of the primary image).
Overview_read_tiles(v, xs, ys, decoded_tiles, decoded_masks) ==
    fetch_tiles_arrays(v, xs, ys, decoded_tiles, decoded_masks)

\* the same loop in Overview.fetch_tiles
Overview_fetch_tiles_arrays(v, xs, ys, decoded_tiles, decoded_masks) ==
    [i \in 1..Len(xs) |->
        Tile(xs[i], ys[i],
             Overview_fetch_tile_array(v, xs[i], ys[i], Get(decoded_tiles[i]), decoded_masks[i]))]

(***************************************************************************)
(* read and assemble_tiles (_read.py).                                     *)
(***************************************************************************)
\* read, lines 67-83: the window normalised and checked against the image
read_window_width_only(v, window) ==
    LET w == IF IsNone(window) THEN Window(0, 0, width(v), height(v)) ELSE Ok(Get(window))
    IN  IF ~w.ok THEN w
        ELSE IF Get(w.val).col_off + Get(w.val).width > width(v)
             THEN Raise("IndexError")
             ELSE w

read_window(v, window) ==
    LET w == IF IsNone(window) THEN Window(0, 0, width(v), height(v)) ELSE Ok(Get(window))
    IN  IF ~w.ok THEN w
        ELSE IF \/ Get(w.val).col_off + Get(w.val).width > width(v)
                \/ Get(w.val).row_off + Get(w.val).height > height(v)
             THEN Raise("IndexError")
             ELSE w

\* read, lines 85-97, with the stop tiles taken from the first pixel past
\* the window
read_tiles_past_the_end(v, win) ==
    LET tile_x_start == win.col_off \div tile_width(v)
        tile_x_stop == ((win.col_off + win.width) \div tile_width(v)) + 1
        tile_y_start == win.row_off \div tile_height(v)
        tile_y_stop == ((win.row_off + win.height) \div tile_height(v)) + 1
        ny == tile_y_stop - tile_y_start
        n == (tile_x_stop - tile_x_start) * ny
    IN  [xs |-> [i \in 1..n |-> tile_x_start + ((i - 1) \div ny)],
         ys |-> [i \in 1..n |-> tile_y_start + ((i - 1) % ny)]]

\* read, lines 85-97: the tiles to fetch, tx outermost
read_tiles(v, win) ==
    LET tile_x_start == win.col_off \div tile_width(v)
        tile_x_stop == ((win.col_off + win.width - 1) \div tile_width(v)) + 1
        tile_y_start == win.row_off \div tile_height(v)
        tile_y_stop == ((win.row_off + win.height - 1) \div tile_height(v)) + 1
        ny == tile_y_stop - tile_y_start
        n == (tile_x_stop - tile_x_start) * ny
    IN  [xs |-> [i \in 1..n |-> tile_x_start + ((i - 1) \div ny)],
         ys |-> [i \in 1..n |-> tile_y_start + ((i - 1) % ny)]]

\* assemble_tiles, lines 166-171: the tile's window in image coordinates
tile_window(tile, tw, th) ==
    Window(tile.x * tw, tile.y * th, tile.array.width, tile.array.height)

\* assemble_tiles, lines 176-180: the source slice within the tile
src_slice_unshifted(overlap, twin) ==
    Offsets(overlap.row_off, overlap.row_off + overlap.height,
            overlap.col_off, overlap.col_off + overlap.width)

src_slice(overlap, twin) ==
    Offsets(overlap.row_off - twin.row_off,
            overlap.row_off - twin.row_off + overlap.height,
            overlap.col_off - twin.col_off,
            overlap.col_off - twin.col_off + overlap.width)

\* assemble_tiles, lines 182-186: the destination slice within the output
dst_slice(overlap, window) ==
    Offsets(overlap.row_off - window.row_off,
            overlap.row_off - window.row_off + overlap.height,
            overlap.col_off - window.col_off,
            overlap.col_off - window.col_off + overlap.width)

\* assemble_tiles from the i-th tile on
RECURSIVE assemble_from(_, _, _, _, _, _, _)
assemble_from(i, tiles, window, tw, th, output_data, output_mask) ==
    IF i > Len(tiles) THEN Ok([data |-> output_data, mask |-> output_mask])
    ELSE
      LET tile == tiles[i]
          twin == tile_window(tile, tw, th)
      IN  IF ~twin.ok THEN Raise(twin.exc)
          ELSE
            LET overlap == intersection(window, Get(twin.val))
            IN  IF ~overlap.ok THEN Raise(overlap.exc)
                ELSE
                  LET s == src_slice(Get(overlap.val), Get(twin.val))
                      d == dst_slice(Get(overlap.val), window)
                      nd == SetSlice(output_data, d, tile.array.data, s)
                      nm == IF ~IsNone(output_mask) /\ ~IsNone(tile.array.mask)
                            THEN SetSlice2(Get(output_mask), d, Get(tile.array.mask), s)
                            ELSE Ok(0)
                  IN  IF ~nd.ok THEN Raise(nd.exc)
                      ELSE IF ~nm.ok THEN Raise(nm.exc)
                      ELSE assemble_from(i + 1, tiles, window, tw, th, Get(nd.val),
                               IF ~IsNone(output_mask) /\ ~IsNone(tile.array.mask)
                               THEN nm.val ELSE output_mask)

assemble_tiles(tiles, window, tw, th, output_data, output_mask) ==
    assemble_from(1, tiles, window, tw, th, output_data, output_mask)

\* whether the view has a mask directory (self._mask_ifd is not None)
has_mask(v) == ~IsNone(AttachedMask(v))

\* read, lines 109-112: the output mask, all valid to begin with
read_output_mask_always(v, win) ==
    Some(NdArray("bool", <<win.height, win.width>>, LAMBDA t : TRUE))

read_output_mask(v, win) ==
    IF has_mask(v)
    THEN Some(NdArray("bool", <<win.height, win.width>>, LAMBDA t : TRUE))
    ELSE None

\* read, lines 125-128: the transform of the window
read_transform_of_view(v, win) == transform(v)

read_transform(v, win) ==
    Affine_mul(transform(v), Affine_translation(win.col_off, win.row_off))

\* read, lines 102-138, once fetch_tiles has returned.  np.empty leaves the
\* output uninitialised: -1 stands for a sample nothing has written.
read_finish(v, win, tiles) ==
    LET num_bands == Get(tiles[1].array.count)
        output_data == NdArray(tiles[1].array.data.dtype,
                               <<num_bands, win.height, win.width>>, LAMBDA t : 0 - 1)
        done == assemble_tiles(tiles, win, tile_width(v), tile_height(v),
                               output_data, read_output_mask(v, win))
    IN  IF ~done.ok THEN Raise(done.exc)
        ELSE Ok([data |-> Get(done.val).data,
                 mask |-> Get(done.val).mask,
                 width |-> win.width, height |-> win.height,
                 count |-> Some(num_bands),
                 transform |-> read_transform(v, win),
                 crs |-> crs_value,
                 nodata |-> None])

(***************************************************************************)
(* The files and the calls.                                                *)
(***************************************************************************)
MaxBatch == 2

\* chunky, with masks: a 4x3 image in 3x2 tiles, its mask, a 2x2 overview in
\* 1x2 tiles and the overview's mask
FileA ==
    <<PrimaryIFD(4, 3, 3, 2, 2, "Chunky", "BlackIsZero"),
      IFD(4, 3, 3, 2, 1, "Chunky", TransparencyMask, Some(4)),
      IFD(2, 2, 1, 2, 2, "Chunky", "BlackIsZero", Some(1)),
      IFD(2, 2, 1, 2, 1, "Chunky", TransparencyMask, Some(5))>>

\* planar, without masks, with a GDAL_NODATA tag: a 3x3 image in 2x2 tiles and
\* a 2x1 overview in 1x1 tiles
FileB ==
    <<[PrimaryIFD(3, 3, 2, 2, 2, "Planar", "BlackIsZero") EXCEPT !.gdal_nodata = Some("255")],
      IFD(2, 1, 1, 1, 2, "Planar", "BlackIsZero", Some(1))>>

Files == {FileA, FileB}

TileCoords(v) == (0..(tile_count(v)[1] - 1)) \X (0..(tile_count(v)[2] - 1))

\* the lists of at most MaxBatch tile coordinates
Batches(v) == SeqsUpTo(TileCoords(v), MaxBatch)

\* the Window objects a caller can pass: the ones inside the image and the
\* ones that overshoot it by one
ReadWindows(v) ==
    {Get(Window(c, r, w, h).val) :
        c \in 0..width(v), r \in 0..height(v), w \in 1..(width(v) + 1), h \in 1..(height(v) + 1)}

ReadArgs(v) ==
    {None} \cup {Some(w) : w \in {u \in ReadWindows(v) :
                                    /\ u.col_off + u.width <= width(v) + 1
                                    /\ u.row_off + u.height <= height(v) + 1}}

Init ==
    /\ tiff \in Files
    /\ geotiff = Opened(tiff)
    /\ call = Idle
    /\ result = NoResult

\* one call at a time on the opened file
CanStart == IsOpen /\ call.pc = "returned"

Start(op, v, xs, ys, window, win, boundless) ==
    [op |-> op, view |-> v, xs |-> xs, ys |-> ys, window |-> window, win |-> win,
     boundless |-> boundless, pc |-> "fetching", fetched |-> {}, decoded |-> {},
     data_slots |-> <<>>, mask_slots |-> <<>>, reordered |-> FALSE, failed |-> None]

\* view.fetch_tile(x, y): the requests for the tile and its mask are issued
CallFetchTile(v, x, y, boundless) ==
    /\ CanStart
    /\ call' = Start("fetch_tile", v, <<x>>, <<y>>, None, None, boundless)
    /\ result' = NoResult
    /\ UNCHANGED <<tiff, geotiff>>

\* view.fetch_tiles(xs, ys): the two batched requests are issued
CallFetchTiles(v, xy) ==
    /\ CanStart
    /\ call' = Start("fetch_tiles", v, [i \in 1..Len(xy) |-> xy[i][1]],
                     [i \in 1..Len(xy) |-> xy[i][2]], None, None, TRUE)
    /\ result' = NoResult
    /\ UNCHANGED <<tiff, geotiff>>

\* view.read(window=...): the window is checked, then fetch_tiles is called
CallRead(v, window) ==
    /\ CanStart
    /\ LET w == read_window(v, window)
       IN  IF ~w.ok
           THEN /\ call' = [Idle EXCEPT !.op = "read", !.view = v, !.window = window]
                /\ result' = [kind |-> "error", exc |-> w.exc, val |-> None]
           ELSE /\ call' = Start("read", v, read_tiles(v, Get(w.val)).xs,
                                 read_tiles(v, Get(w.val)).ys, window, w.val, TRUE)
                /\ result' = NoResult
    /\ UNCHANGED <<tiff, geotiff>>

\* the requests the call gathers: the tiles and, with a mask directory, the masks
Futures(v) == IF has_mask(v) THEN {"data", "mask"} ELSE {"data"}

\* the call c once request k has completed, the decodes starting without
\* waiting for the other request
fetch_done_on_first(c, k) ==
    [c EXCEPT !.fetched = c.fetched \cup {k},
              !.pc = "decoding",
              !.data_slots = [i \in 1..Len(c.xs) |-> None],
              !.mask_slots = [i \in 1..Len(c.xs) |-> None]]

\* the call c once request k of its gather has completed; once all have, the
\* decodes start
fetch_done(c, k) ==
    IF c.fetched \cup {k} = Futures(c.view)
    THEN [c EXCEPT !.fetched = c.fetched \cup {k},
                   !.pc = "decoding",
                   !.data_slots = [i \in 1..Len(c.xs) |-> None],
                   !.mask_slots = [i \in 1..Len(c.xs) |-> None]]
    ELSE [c EXCEPT !.fetched = c.fetched \cup {k}]

\* the call c once the decode of its i-th tile (or mask) has completed; gather
\* keeps the result
decode_done(c, k, i) ==
    LET idx == IF k = "data" THEN DataIfdOf(c.view) ELSE Get(AttachedMask(c.view))
        h == tiff_fetch_tiles(c.xs, c.ys, idx)[i]
        late == \E j \in 1..(i - 1) : <<k, j>> \notin c.decoded
    IN  IF k = "data"
        THEN [c EXCEPT !.decoded = c.decoded \cup {<<k, i>>},
                       !.data_slots = gather_store(c.data_slots, i, h),
                       !.reordered = c.reordered \/ late]
        ELSE [c EXCEPT !.decoded = c.decoded \cup {<<k, i>>},
                       !.mask_slots = gather_store(c.mask_slots, i, h),
                       !.reordered = c.reordered \/ late]

\* what the call c returns once every decode has completed
ReturnValueOf(c) ==
    LET v == c.view
        decoded_tiles == c.data_slots
        decoded_masks == [i \in 1..Len(c.xs) |->
                            IF has_mask(v) THEN c.mask_slots[i] ELSE None]
    IN  IF c.op = "fetch_tile"
        THEN LET a == IF v = 0
                      THEN fetch_tile_array(v, c.xs[1], c.ys[1],
                                            Get(decoded_tiles[1]), decoded_masks[1])
                      ELSE Overview_fetch_tile_array(v, c.xs[1], c.ys[1],
                                                     Get(decoded_tiles[1]), decoded_masks[1])
             IN  [kind |-> "array", exc |-> "",
                  val |-> Some(IF c.boundless THEN a
                               ELSE clip_to_image_bounds(a, v, c.xs[1], c.ys[1]))]
        ELSE IF c.op = "fetch_tiles"
        THEN [kind |-> "tiles", exc |-> "",
              val |-> Some(IF v = 0
                           THEN fetch_tiles_arrays(v, c.xs, c.ys,
                                                   decoded_tiles, decoded_masks)
                           ELSE Overview_fetch_tiles_arrays(v, c.xs, c.ys,
                                                            decoded_tiles, decoded_masks))]
        ELSE LET r == read_finish(v, Get(c.win),
                                  IF v = 0
                                  THEN fetch_tiles_arrays(v, c.xs, c.ys,
                                                          decoded_tiles, decoded_masks)
                                  ELSE Overview_read_tiles(v, c.xs, c.ys,
                                                           decoded_tiles, decoded_masks))
             IN  IF r.ok THEN [kind |-> "array", exc |-> "", val |-> r.val]
                 ELSE [kind |-> "error", exc |-> r.exc, val |-> None]

\* the reads of self.crs the call c makes on its way to returning: one per
\* Array it builds
crs_reads_of(c) ==
    IF c.op = "fetch_tile" THEN 1
    ELSE IF c.op = "fetch_tiles" THEN Len(c.xs)
    ELSE Len(c.xs) + 1

\* A fetch or a decode fails.  asyncio.gather hands the first exception to the
\* awaiting call, and neither fetch_tile, fetch_tiles nor read catches it: the
\* call ends there and its locals are dropped.
failure_result_partial(c, e) ==
    [kind |-> "array", exc |-> "", val |-> Some([data |-> "partial"])]

failure_result(c, e) == [kind |-> "error", exc |-> e, val |-> None]

failed_call(c, k, i) ==
    [c EXCEPT !.pc = "returned", !.failed = Some(<<k, i>>), !.fetched = {},
              !.decoded = {}, !.data_slots = <<>>, !.mask_slots = <<>>,
              !.reordered = FALSE]

\* one of the gathered requests completes
FetchDone(k) ==
    /\ call.pc = "fetching"
    /\ k \in Futures(call.view) \ call.fetched
    /\ call' = fetch_done(call, k)
    /\ UNCHANGED <<tiff, geotiff, result>>

\* one of the gathered requests fails with an error of the store
FetchFail(k) ==
    /\ call.pc = "fetching"
    /\ k \in Futures(call.view) \ call.fetched
    /\ call' = failed_call(call, k, 0)
    /\ result' = failure_result(call, "StoreError")
    /\ UNCHANGED <<tiff, geotiff>>

\* the decode of the i-th tile (or mask) completes
DecodeDone(k, i) ==
    /\ call.pc = "decoding"
    /\ k \in Futures(call.view)
    /\ i \in 1..Len(call.xs)
    /\ <<k, i>> \notin call.decoded
    /\ call' = decode_done(call, k, i)
    /\ UNCHANGED <<tiff, geotiff, result>>

\* the decode of the i-th tile (or mask) fails
DecodeFail(k, i) ==
    /\ call.pc = "decoding"
    /\ k \in Futures(call.view)
    /\ i \in 1..Len(call.xs)
    /\ <<k, i>> \notin call.decoded
    /\ call' = failed_call(call, k, i)
    /\ result' = failure_result(call, "DecodeError")
    /\ UNCHANGED <<tiff, geotiff>>

ReturnValue == ReturnValueOf(call)

crs_reads == crs_reads_of(call)

\* geotiff.crs is read outside any call, or between the steps of one
AccessCrs ==
    /\ IsOpen
    /\ geotiff' = after_crs_accesses(geotiff, 1)
    /\ UNCHANGED <<tiff, call, result>>

\* the call returns, having read self.crs for every Array it built
Return ==
    /\ call.pc = "decoding"
    /\ call.decoded = Futures(call.view) \X (1..Len(call.xs))
    /\ result' = ReturnValue
    /\ call' = [call EXCEPT !.pc = "returned"]
    /\ geotiff' = after_crs_accesses(geotiff, crs_reads)
    /\ UNCHANGED tiff

Next ==
    \/ \E v \in Views, b \in BOOLEAN : \E c \in TileCoords(v) :
          (v = 0 \/ b) /\ CallFetchTile(v, c[1], c[2], b)
    \/ \E v \in Views : \E xy \in Batches(v) : CallFetchTiles(v, xy)
    \/ \E v \in Views : \E w \in ReadArgs(v) : CallRead(v, w)
    \/ \E k \in {"data", "mask"} : FetchDone(k)
    \/ \E k \in {"data", "mask"}, i \in 1..Len(call.xs) : DecodeDone(k, i)
    \/ \E k \in {"data", "mask"} : FetchFail(k)
    \/ \E k \in {"data", "mask"}, i \in 1..Len(call.xs) : DecodeFail(k, i)
    \/ Return
    \/ AccessCrs

Spec == Init /\ [][Next]_vars

(***************************************************************************)
(* Properties of read.                                                     *)
(***************************************************************************)
\* the call op has returned, no fetch or decode having failed
Returned(op) ==
    /\ call.op = op
    /\ call.pc = "returned"
    /\ "failed" \in DOMAIN call => IsNone(call.failed)

\* the window a read was called with, the whole image when it was omitted
ArgWindow ==
    IF IsNone(call.window)
    THEN [col_off |-> 0, row_off |-> 0,
          width |-> width(call.view), height |-> height(call.view)]
    ELSE Get(call.window)

ArgInBounds ==
    /\ ArgWindow.col_off + ArgWindow.width <= width(call.view)
    /\ ArgWindow.row_off + ArgWindow.height <= height(call.view)

\* the point an affine transform maps pixel (x, y) to
AffineApply(T, x, y) ==
    <<RAdd(RAdd(RMul(T.a, RInt(x)), RMul(T.b, RInt(y))), T.c),
      RAdd(RAdd(RMul(T.d, RInt(x)), RMul(T.e, RInt(y))), T.f)>>

C4_OutOfBoundsWindowError ==
    (Returned("read") /\ ~ArgInBounds) =>
      result.kind = "error" /\ result.exc = "WindowError"

\* C4 as amended: a read whose window overshoots the image fails with an
\* IndexError, returns no Array and fetches no tile.
C4_OutOfBoundsIndexError ==
    (Returned("read") /\ ~ArgInBounds) =>
      /\ result.kind = "error" /\ result.exc = "IndexError"
      /\ IsNone(result.val)
      /\ call.fetched = {}

\* C4 witness: read(Window(0, 0, width + 1, 1)) has failed.
C4_Witness ==
    /\ Returned("read")
    /\ call.window = Some([col_off |-> 0, row_off |-> 0,
                           width |-> width(call.view) + 1, height |-> 1])
    /\ result.kind = "error"

(***************************************************************************)
(* Properties of fetch_tile and fetch_tiles.                               *)
(***************************************************************************)
\* the tile and the mask tile at (x, y) of view v, as the TIFF layer hands
\* them over
DataTile(v, x, y) == tiff_fetch_tiles(<<x>>, <<y>>, DataIfdOf(v))[1]
MaskTile(v, x, y) ==
    IF IsNone(AttachedMask(v)) THEN None
    ELSE Some(tiff_fetch_tiles(<<x>>, <<y>>, Get(AttachedMask(v)))[1])

\* the part of tile (x, y) of view v that lies inside the image
ClipWidth(v, x) == Min(tile_width(v), width(v) - x * tile_width(v))
ClipHeight(v, y) == Min(tile_height(v), height(v) - y * tile_height(v))

\* C5 as claimed: on every view, fetch_tile(x, y) with boundless=true returns
\* an Array whose width is the view's tile_width and whose height is the
\* view's tile_height.
C5_BoundlessTileSize ==
    (Returned("fetch_tile") /\ call.boundless) =>
      /\ Get(result.val).width = tile_width(call.view)
      /\ Get(result.val).height = tile_height(call.view)

C7_MaskBooleanSqueezed ==
    (Returned("fetch_tile") /\ call.boundless /\ ~IsNone(AttachedMask(call.view))) =>
      LET a == Get(result.val)
          v == call.view
      IN  /\ ~IsNone(a.mask)
          /\ Get(a.mask).dtype = "bool"
          /\ Get(a.mask).shape = <<a.data.shape[2], a.data.shape[3]>>
          /\ \A t \in DOMAIN Get(a.mask).el :
               Get(a.mask).el[t] =
                  (StoredAt(tiff, Get(AttachedMask(v)), 0,
                            call.ys[1] * tile_height(v) + t[1],
                            call.xs[1] * tile_width(v) + t[2]) # 0)

\* C8: whatever the order in which the fetches and decodes of a fetch_tiles
\* call complete, the returned list is as long as the input and its i-th
\* element is the tile at (xs[i], ys[i]): that tile's data, mask and
\* transform, as a fetch of that one tile builds them.
C8_FetchTilesKeepsOrder ==
    Returned("fetch_tiles") =>
      LET v == call.view
          tiles == Get(result.val)
      IN  /\ Len(tiles) = Len(call.xs)
          /\ \A i \in 1..Len(tiles) :
               LET x == call.xs[i]
                   y == call.ys[i]
                   a == tiles[i].array
               IN  /\ tiles[i].x = x /\ tiles[i].y = y
                   /\ a.data.el[<<0, 0, 0>>]
                        = StoredSample(DataIfdOf(v), 0, y * tile_height(v), x * tile_width(v))
                   /\ AffineApply(a.transform, 0, 0)
                        = AffineApply(transform(v), x * tile_width(v), y * tile_height(v))
                   /\ a = IF v = 0
                          THEN fetch_tile_array(v, x, y, DataTile(v, x, y), MaskTile(v, x, y))
                          ELSE Overview_fetch_tile_array(v, x, y, DataTile(v, x, y),
                                                         MaskTile(v, x, y))

\* C8 witness: a fetch_tiles call for two different tiles has returned after
\* the decode of the second completed before the decode of the first.
C8_Witness ==
    /\ Returned("fetch_tiles")
    /\ Len(call.xs) = 2
    /\ <<call.xs[1], call.ys[1]>> # <<call.xs[2], call.ys[2]>>
    /\ call.reordered

(***************************************************************************)
(* Window on its own: the constructor and intersection, applied to every   *)
(* small input.  call holds the call and its arguments, result what it     *)
(* returned or raised.                                                     *)
(***************************************************************************)
MaxWin == 2

\* what a caller sees of a call that returns a value or raises
ToResult(r) ==
    IF r.ok THEN [kind |-> "value", exc |-> "", val |-> r.val]
    ELSE [kind |-> "error", exc |-> r.exc, val |-> None]

\* the windows with offsets up to MaxWin and sizes from 1 to MaxWin
SmallWindows ==
    {[col_off |-> c, row_off |-> r, width |-> w, height |-> h] :
        c \in 0..MaxWin, r \in 0..MaxWin, w \in 1..MaxWin, h \in 1..MaxWin}

\* the rows and cols arguments: the tuples (start, stop) with entries from -1
\* to MaxWin, a tuple of three, and slices with and without their ends
SliceArgs ==
    {TupleArg(<<a, b>>) : a \in (0 - 1)..MaxWin, b \in (0 - 1)..MaxWin}
    \cup {TupleArg(<<0, 1, 2>>)}
    \cup {SliceArg(a, b) : a \in {None, Some(0), Some(1)}, b \in {None, Some(0), Some(2)}}

WindowCalls ==
    {[op |-> "Window", args |-> <<c, r, w, h>>, pc |-> "called"] :
        c \in (0 - 1)..MaxWin, r \in (0 - 1)..MaxWin,
        w \in (0 - 1)..MaxWin, h \in (0 - 1)..MaxWin}
    \cup
    {[op |-> "intersection", args |-> <<a, b>>, pc |-> "called"] :
        a \in SmallWindows, b \in SmallWindows}
    \cup
    {[op |-> "from_slices", args |-> <<rows, cols>>, pc |-> "called"] :
        rows \in SliceArgs, cols \in SliceArgs}
    \cup
    {[op |-> "crop", args |-> <<a, h, w>>, pc |-> "called"] :
        a \in SmallWindows, h \in 0..(MaxWin + 1), w \in 0..(MaxWin + 1)}

InitWindow ==
    /\ tiff = <<>>
    /\ geotiff = Unopened
    /\ call \in WindowCalls
    /\ result = NoResult

\* Window(col_off, row_off, width, height)
ConstructWindow ==
    /\ call.op = "Window" /\ call.pc = "called"
    /\ result' = ToResult(Window(call.args[1], call.args[2], call.args[3], call.args[4]))
    /\ call' = [call EXCEPT !.pc = "returned"]
    /\ UNCHANGED <<tiff, geotiff>>

\* a.intersection(b)
Intersect ==
    /\ call.op = "intersection" /\ call.pc = "called"
    /\ result' = ToResult(intersection(call.args[1], call.args[2]))
    /\ call' = [call EXCEPT !.pc = "returned"]
    /\ UNCHANGED <<tiff, geotiff>>

\* Window.from_slices(rows, cols)
FromSlices ==
    /\ call.op = "from_slices" /\ call.pc = "called"
    /\ result' = ToResult(from_slices(call.args[1], call.args[2]))
    /\ call' = [call EXCEPT !.pc = "returned"]
    /\ UNCHANGED <<tiff, geotiff>>

\* a._crop(height, width)
Crop ==
    /\ call.op = "crop" /\ call.pc = "called"
    /\ result' = ToResult(Window_crop(call.args[1], call.args[2], call.args[3]))
    /\ call' = [call EXCEPT !.pc = "returned"]
    /\ UNCHANGED <<tiff, geotiff>>

NextWindow == ConstructWindow \/ Intersect \/ FromSlices \/ Crop

SpecWindow == InitWindow /\ [][NextWindow]_vars

\* C12 as claimed: Window(...) with a negative col_off or row_off, with
\* width <= 0 or with height <= 0 raises WindowError and creates no Window.
C12_InvalidWindowRaisesWindowError ==
    (Returned("Window") /\ (\/ call.args[1] < 0 \/ call.args[2] < 0
                            \/ call.args[3] <= 0 \/ call.args[4] <= 0)) =>
      /\ result.kind = "error"
      /\ result.exc = "WindowError"
      /\ IsNone(result.val)

\* the pixels (column, row) a window covers
Pixels(w) ==
    {<<c, r>> : c \in w.col_off..(w.col_off + w.width - 1),
                r \in w.row_off..(w.row_off + w.height - 1)}

\* C13: a.intersection(b) fails, with WindowError, exactly when a and b share
\* no pixel (touching along an edge shares none); otherwise it returns the
\* window covering exactly the pixels common to both.  Hence b.intersection(a)
\* fails or returns the same window, and a.intersection(a) is a.
C13_IntersectionIsCommonPixels ==
    Returned("intersection") =>
      LET a == call.args[1]
          b == call.args[2]
          common == Pixels(a) \cap Pixels(b)
      IN  /\ result.kind = "error" <=> common = {}
          /\ result.kind = "error" => result.exc = "WindowError"
          /\ result.kind = "value" => Pixels(Get(result.val)) = common
          /\ ToResult(intersection(b, a)) = result
          /\ a = b => result.val = Some(a)

\* C13 witness: the intersection of two windows that touch along a vertical
\* edge, their rows overlapping, has failed.
C13_Witness ==
    /\ Returned("intersection")
    /\ call.args[1].col_off + call.args[1].width = call.args[2].col_off
    /\ call.args[1].row_off = call.args[2].row_off
    /\ result.kind = "error"

(***************************************************************************)
(* Properties of the transforms.                                           *)
(***************************************************************************)
\* the point an affine transform maps the rational pixel position (x, y) to
AffineApplyR(T, x, y) ==
    <<RAdd(RAdd(RMul(T.a, x), RMul(T.b, y)), T.c),
      RAdd(RAdd(RMul(T.d, x), RMul(T.e, y)), T.f)>>

\* C14: the transform of every overview is the primary transform composed
\* with Scale(full_width / overview_width, full_height / overview_height):
\* the column coefficients are scaled by the first factor, the row
\* coefficients by the second, the origin is the primary's, and so overview
\* pixel (i, j) lies where the primary maps (i * full_width / overview_width,
\* j * full_height / overview_height).
C14_OverviewTransformIsScaledPrimary ==
    IsOpen =>
      \A v \in 1..NumOverviews :
        LET T == transform(v)
            P == transform(0)
            sx == Rat(tiff[1].image_width, OvDims(v)[1])
            sy == Rat(tiff[1].image_height, OvDims(v)[2])
        IN  /\ T.a = RMul(P.a, sx) /\ T.d = RMul(P.d, sx)
            /\ T.b = RMul(P.b, sy) /\ T.e = RMul(P.e, sy)
            /\ T.c = P.c /\ T.f = P.f
            /\ \A i \in {0, 1, OvDims(v)[1]}, j \in {0, 1, OvDims(v)[2]} :
                 AffineApply(T, i, j) = AffineApplyR(P, RMul(RInt(i), sx), RMul(RInt(j), sy))

\* C14 witness: an opened file has an overview whose two scale factors differ.
C14_Witness ==
    /\ IsOpen
    /\ NumOverviews >= 1
    /\ Rat(tiff[1].image_width, OvDims(1)[1]) # Rat(tiff[1].image_height, OvDims(1)[2])
    /\ Rat(tiff[1].image_width, OvDims(1)[1]) # RInt(1)

(***************************************************************************)
(* Properties of the CRS cache.                                            *)
(***************************************************************************)
\* C15, the cache: once crs has been read, the value read is the stored one
\* and crs_from_geo_keys has run exactly once
C15_Cached ==
    IsOpen =>
      /\ geotiff.resolves <= 1
      /\ geotiff.resolves = 1 <=> geotiff.accesses > 0
      /\ geotiff.accesses > 0 <=> ~IsNone(G.crs)
      /\ ~IsNone(G.crs) =>
           /\ geotiff.last_crs = G.crs
           /\ (call.pc = "returned" /\ result.kind = "array") =>
                Get(result.val).crs = Get(G.crs)
           /\ (call.pc = "returned" /\ result.kind = "tiles") =>
                \A i \in 1..Len(Get(result.val)) : Get(result.val)[i].array.crs = Get(G.crs)

\* C15: the first read of crs runs the geo-key resolver and stores its result;
\* from then on every read, by the GeoTIFF, by an overview's fetch or by a
\* read, returns the stored value, the resolver never runs again, and the
\* stored value never changes.
C15_CrsResolvedOnce ==
    /\ []C15_Cached
    /\ [][(IsOpen /\ ~IsNone(G.crs)) => Get(geotiff'.obj).crs = G.crs]_vars

\* C15 witness: an overview's fetch_tile has returned after an earlier read of
\* crs, the resolver having run once.
C15_Witness ==
    /\ IsOpen
    /\ Returned("fetch_tile") /\ call.view > 0
    /\ geotiff.accesses = 2
    /\ geotiff.resolves = 1

(***************************************************************************)
(* Two calls in flight on one GeoTIFF.  The calls are coroutines on one    *)
(* event loop: each step below runs between two suspension points, and the *)
(* loop is free to pick either call for the next step.  Here call and      *)
(* result hold one entry per coroutine.                                    *)
(***************************************************************************)
\* the last tile of the view v
LastTile(v) == <<tile_count(v)[1] - 1, tile_count(v)[2] - 1>>

\* the calls a coroutine makes: a tile, a batch of two tiles, the top-left
\* pixel of the full image, an overview as a whole
ConcCalls ==
    {Start("fetch_tile", v, <<0>>, <<0>>, None, None, TRUE) : v \in Views}
    \cup
    {Start("fetch_tiles", v, <<LastTile(v)[1], 0>>, <<LastTile(v)[2], 0>>,
           None, None, TRUE) : v \in Views}
    \cup
    {LET window == IF v = 0 THEN Window(0, 0, 1, 1).val ELSE None
         w == read_window(v, window)
     IN  Start("read", v, read_tiles(v, Get(w.val)).xs, read_tiles(v, Get(w.val)).ys,
               window, w.val, TRUE) : v \in Views}

InitConc ==
    /\ tiff \in Files
    /\ geotiff = Opened(tiff)
    /\ call = <<Idle, Idle>>
    /\ result = <<NoResult, NoResult>>

\* coroutine j makes its call
ConcStart(j, c) ==
    /\ IsOpen
    /\ call[j].op = "idle"
    /\ call' = [call EXCEPT ![j] = c]
    /\ UNCHANGED <<tiff, geotiff, result>>

\* one of the requests coroutine j gathers completes
ConcFetchDone(j, k) ==
    /\ call[j].pc = "fetching"
    /\ k \in Futures(call[j].view) \ call[j].fetched
    /\ call' = [call EXCEPT ![j] = fetch_done(call[j], k)]
    /\ UNCHANGED <<tiff, geotiff, result>>

\* one of the decodes coroutine j gathers completes
ConcDecodeDone(j, k, i) ==
    /\ call[j].pc = "decoding"
    /\ k \in Futures(call[j].view)
    /\ i \in 1..Len(call[j].xs)
    /\ <<k, i>> \notin call[j].decoded
    /\ call' = [call EXCEPT ![j] = decode_done(call[j], k, i)]
    /\ UNCHANGED <<tiff, geotiff, result>>

\* coroutine j builds its Arrays, reading self.crs for each, and returns
ConcReturn(j) ==
    /\ call[j].pc = "decoding"
    /\ call[j].decoded = Futures(call[j].view) \X (1..Len(call[j].xs))
    /\ result' = [result EXCEPT ![j] = ReturnValueOf(call[j])]
    /\ call' = [call EXCEPT ![j].pc = "returned"]
    /\ geotiff' = after_crs_accesses(geotiff, crs_reads_of(call[j]))
    /\ UNCHANGED tiff

NextConc ==
    \/ \E j \in 1..2 : \E c \in ConcCalls : ConcStart(j, c)
    \/ \E j \in 1..2, k \in {"data", "mask"} : ConcFetchDone(j, k)
    \/ \E j \in 1..2, k \in {"data", "mask"} :
          \E i \in 1..Len(call[j].xs) : ConcDecodeDone(j, k, i)
    \/ \E j \in 1..2 : ConcReturn(j)

SpecConc == InitConc /\ [][NextConc]_vars

\* the call c run alone: nothing else is scheduled between its steps, and its
\* requests and decodes complete in the order they were issued
RunAlone(c) ==
    [c EXCEPT !.pc = "returned",
              !.data_slots = [i \in 1..Len(c.xs) |->
                                Some(tiff_fetch_tiles(c.xs, c.ys, DataIfdOf(c.view))[i])],
              !.mask_slots = [i \in 1..Len(c.xs) |->
                                IF has_mask(c.view)
                                THEN Some(tiff_fetch_tiles(c.xs, c.ys,
                                                           Get(AttachedMask(c.view)))[i])
                                ELSE None]]

\* C16, the results: a call that has returned has returned what it returns
\* when it is run alone
C16_ResultAsAlone ==
    \A j \in 1..2 :
        (call[j].op # "idle" /\ call[j].pc = "returned") =>
            result[j] = ReturnValueOf(RunAlone(call[j]))

\* C16, the frame: no step changes the TIFF handle, the primary directory, the
\* mask directory, the geo keys or the overview list, and the crs cache only
\* goes from unset to set
C16_Frame ==
    /\ tiff' = tiff
    /\ IsOpen =>
         /\ geotiff'.status = "open"
         /\ Get(geotiff'.obj).primary_ifd = G.primary_ifd
         /\ Get(geotiff'.obj).mask_ifd = G.mask_ifd
         /\ Get(geotiff'.obj).gkd = G.gkd
         /\ Get(geotiff'.obj).overviews = G.overviews
         /\ DOMAIN Get(geotiff'.obj) = DOMAIN G
         /\ \/ Get(geotiff'.obj).crs = G.crs
            \/ IsNone(G.crs) /\ ~IsNone(Get(geotiff'.obj).crs)

Failed(op) == call.op = op /\ call.pc = "returned" /\ ~IsNone(call.failed)

\* the error of the request that failed
FailureOf(c) == IF Get(c.failed)[2] = 0 THEN "StoreError" ELSE "DecodeError"

\* C17, the outcome: a read that ended on a failed fetch or decode has raised
\* that error and returned no Array
C17_FailedReadRaises ==
    Failed("read") =>
        /\ result.kind = "error"
        /\ result.exc = FailureOf(call)
        /\ IsNone(result.val)

\* C17, no retry: a call that ended on a failure takes no further step; the
\* next thing to happen to call is a new call, with nothing fetched or decoded
C17_NoRetry ==
    (call.pc = "returned" /\ ~IsNone(call.failed) /\ call' # call) =>
        /\ IsNone(call'.failed)
        /\ call'.fetched = {} /\ call'.decoded = {}
        /\ call'.pc \in {"fetching", "returned"}

\* C17: if a data or mask tile fetch, or a tile decode, issued by a read fails,
\* the read raises that error and returns no Array (no partially filled buffer
\* reaches the caller), and the failed tile is not retried
C17_ReadFailurePropagates ==
    /\ []C17_FailedReadRaises
    /\ [][C17_NoRetry]_vars

\* a read over several tiles of a masked image has ended on the failed decode
\* of a mask tile other than the first
C17_Witness ==
    /\ Failed("read")
    /\ Len(call.xs) > 1
    /\ Get(call.failed)[1] = "mask"
    /\ Get(call.failed)[2] > 1
    /\ result.exc = "DecodeError"

(***************************************************************************)
(* Colormaps (colormap.py) and the conversion to RGB (_photometric.py).    *)
(* A colormap is its (N, 3) uint16 array and the nodata value.             *)
(***************************************************************************)
MaxColors == 2
MaxSide == 2

\* Colormap.as_array(dtype=...), reading only the low byte
as_array_low_byte(cm, dtype) ==
    IF dtype = "uint8"
    THEN Ok(NdArray("uint8", cm.cmap.shape, LAMBDA t : cm.cmap.el[t] % 256))
    ELSE IF dtype = "uint16" THEN Ok(cm.cmap)
    ELSE Raise("ValueError")

\* Colormap.as_array(dtype=...): (cmap_array >> 8).astype(np.uint8), or the
\* array as stored
as_array(cm, dtype) ==
    IF dtype = "uint8"
    THEN Ok(NdArray("uint8", cm.cmap.shape, LAMBDA t : (cm.cmap.el[t] \div 256) % 256))
    ELSE IF dtype = "uint16" THEN Ok(cm.cmap)
    ELSE Raise("ValueError")

\* Colormap.as_rasterio(): the dict of (r, g, b, alpha) by index
as_rasterio(cm) ==
    LET cmap_array == Get(as_array(cm, "uint8").val)
    IN  [idx \in 0..(cmap_array.shape[1] - 1) |->
            <<cmap_array.el[<<idx, 0>>], cmap_array.el[<<idx, 1>>],
              cmap_array.el[<<idx, 2>>],
              IF IsNone(cm.nodata) \/ idx # Get(cm.nodata) THEN 255 ELSE 0>>]

\* np.repeat(a, 3, axis=0)
repeat3_axis0(a) ==
    NdArray(a.dtype, <<3 * a.shape[1], a.shape[2], a.shape[3]>>,
            LAMBDA t : a.el[<<t[1] \div 3, t[2], t[3]>>])

\* 255 - a, in the dtype of a
rsub255(a) == NdArray(a.dtype, a.shape, LAMBDA t : (255 - a.el[t]) % 256)

\* cmap_array[data[0]]: one row of the colormap per pixel of the first band,
\* along a new last axis
take_rows(cmap_array, a) ==
    NdArray(cmap_array.dtype, <<a.shape[2], a.shape[3], cmap_array.shape[2]>>,
            LAMBDA t : cmap_array.el[<<a.el[<<0, t[1], t[2]>>], t[3]>>])

\* _from_cmyk: 255 * ((255 - c) / 256) * ((255 - k) / 256), exact in float32,
\* truncated by astype(np.uint8)
from_cmyk(a) ==
    NdArray("uint8", <<3, a.shape[2], a.shape[3]>>,
            LAMBDA t : (255 * (255 - a.el[<<t[1], t[2], t[3]>>])
                            * (255 - a.el[<<3, t[2], t[3]>>])) \div 65536)

\* np.clip(x, 0, 255).astype(np.uint8) of x / 100000
clip_uint8(x) == Min(Max(x, 0), 25500000) \div 100000

\* _from_ycbcr, in units of 1 / 100000
from_ycbcr(a) ==
    NdArray("uint8", <<3, a.shape[2], a.shape[3]>>,
            LAMBDA t :
              LET y == a.el[<<0, t[2], t[3]>>]
                  cb == a.el[<<1, t[2], t[3]>>]
                  cr == a.el[<<2, t[2], t[3]>>]
              IN  IF t[1] = 0 THEN clip_uint8(100000 * y + 140200 * (cr - 128))
                  ELSE IF t[1] = 1
                  THEN clip_uint8(100000 * y - 34414 * (cb - 128) - 71414 * (cr - 128))
                  ELSE clip_uint8(100000 * y + 177200 * (cb - 128)))

\* astype(np.int8) of a uint8 sample
as_int8(v) == IF v >= 128 THEN v - 256 ELSE v

\* _from_cielab: each output sample is the sRGB component t[1] of the colour
\* (L, a, b), a and b read as signed; the component is kept as that term
from_cielab(a) ==
    NdArray("uint8", <<3, a.shape[2], a.shape[3]>>,
            LAMBDA t : <<"srgb", t[1], a.el[<<0, t[2], t[3]>>],
                         as_int8(a.el[<<1, t[2], t[3]>>]),
                         as_int8(a.el[<<2, t[2], t[3]>>])>>)

\* convert_to_rgb(data, photometric_interpretation=..., colormap=...)
convert_to_rgb(data, photometric_interpretation, colormap) ==
    IF photometric_interpretation = "RGB" THEN Ok(data)
    ELSE IF photometric_interpretation = "RGBPalette"
    THEN IF IsNone(colormap) THEN Raise("ValueError")
         ELSE Ok(take_rows(Get(as_array(Get(colormap), "uint8").val), data))
    ELSE IF photometric_interpretation = "BlackIsZero" THEN Ok(repeat3_axis0(data))
    ELSE IF photometric_interpretation = "WhiteIsZero"
    THEN Ok(repeat3_axis0(rsub255(data)))
    ELSE IF photometric_interpretation = "CMYK" THEN Ok(from_cmyk(data))
    ELSE IF photometric_interpretation = "YCbCr" THEN Ok(from_ycbcr(data))
    ELSE IF photometric_interpretation = "CIELab" THEN Ok(from_cielab(data))
    ELSE Raise("NotImplementedError")

\* the (N, 3) uint16 arrays of up to MaxColors entries
ColorEntries ==
    {<<0, 0, 0>>, <<65535, 65535, 65535>>, <<256, 511, 32768>>, <<255, 65280, 4660>>}

Colormaps ==
    {[cmap |-> NdArray("uint16", <<Len(es), 3>>, LAMBDA t : es[t[1] + 1][t[2] + 1]),
      nodata |-> nd] :
        es \in SeqsUpTo(ColorEntries, MaxColors) \ {<<>>},
        nd \in {None} \cup {Some(i) : i \in 0..MaxColors}}

Photometrics ==
    {"RGB", "RGBPalette", "BlackIsZero", "WhiteIsZero", "CMYK", "YCbCr", "CIELab",
     TransparencyMask, "CFA"}

\* the bands a decoded tile of the photometric interpretation has
BandsOf(pi) ==
    IF pi \in {"RGB", "YCbCr", "CIELab"} THEN 3 ELSE IF pi = "CMYK" THEN 4 ELSE 1

\* the two-entry colormap passed along with tiles
TileColormap ==
    [cmap |-> NdArray("uint16", <<2, 3>>,
                      LAMBDA t : <<<<256, 511, 32768>>, <<255, 65280, 4660>>>>[t[1] + 1][t[2] + 1]),
     nodata |-> None]

\* decoded uint8 tiles of up to MaxSide x MaxSide pixels; the samples of a
\* palette image are indices into its colormap
RgbInputs ==
    {[data |-> NdArray("uint8", <<BandsOf(pi), h, w>>,
                       LAMBDA t : IF pi = "RGBPalette" THEN (seed + t[2] + t[3]) % 2
                                  ELSE (seed * 85 + t[1] * 67 + t[2] * 129 + t[3] * 31) % 256),
      photometric_interpretation |-> pi,
      colormap |-> cm] :
        pi \in Photometrics, h \in 1..MaxSide, w \in 1..MaxSide, seed \in 0..2,
        cm \in {None, Some(TileColormap)}}

ColorCalls ==
    {[op |-> "convert_to_rgb", args |-> <<a>>, pc |-> "called"] : a \in RgbInputs}
    \cup
    {[op |-> "as_rasterio", args |-> <<cm>>, pc |-> "called"] : cm \in Colormaps}
    \cup
    {[op |-> "as_array", args |-> <<cm, dt>>, pc |-> "called"] :
        cm \in Colormaps, dt \in {"uint8", "uint16", "float32"}}

InitColor ==
    /\ tiff = <<>>
    /\ geotiff = Unopened
    /\ call \in ColorCalls
    /\ result = NoResult

ConvertToRgb ==
    /\ call.op = "convert_to_rgb" /\ call.pc = "called"
    /\ result' = ToResult(convert_to_rgb(call.args[1].data,
                                         call.args[1].photometric_interpretation,
                                         call.args[1].colormap))
    /\ call' = [call EXCEPT !.pc = "returned"]
    /\ UNCHANGED <<tiff, geotiff>>

AsRasterio ==
    /\ call.op = "as_rasterio" /\ call.pc = "called"
    /\ result' = ToResult(Ok(as_rasterio(call.args[1])))
    /\ call' = [call EXCEPT !.pc = "returned"]
    /\ UNCHANGED <<tiff, geotiff>>

AsArray ==
    /\ call.op = "as_array" /\ call.pc = "called"
    /\ result' = ToResult(as_array(call.args[1], call.args[2]))
    /\ call' = [call EXCEPT !.pc = "returned"]
    /\ UNCHANGED <<tiff, geotiff>>

NextColor == ConvertToRgb \/ AsRasterio \/ AsArray

SpecColor == InitColor /\ [][NextColor]_vars

\* the photometric interpretations convert_to_rgb converts, RGBPalette
\* needing its colormap
SupportedRgb(a) ==
    \/ a.photometric_interpretation \in
          {"RGB", "BlackIsZero", "WhiteIsZero", "CMYK", "YCbCr", "CIELab"}
    \/ a.photometric_interpretation = "RGBPalette" /\ ~IsNone(a.colormap)

\* C18: for RGB, RGBPalette with a colormap, BlackIsZero, WhiteIsZero, CMYK,
\* YCbCr and CIELab, and every H x W input, the conversion returns a
\* (3, H, W) array of uint8; RGBPalette without a colormap and every other
\* photometric interpretation fail
C18_RgbShapeAndDtype ==
    (call.op = "convert_to_rgb" /\ call.pc = "returned") =>
        LET a == call.args[1]
        IN  IF SupportedRgb(a)
            THEN /\ result.kind = "value"
                 /\ Get(result.val).shape = <<3, a.data.shape[2], a.data.shape[3]>>
                 /\ Get(result.val).dtype = "uint8"
            ELSE result.kind = "error"

\* the component of colormap entry idx at position k (0, 1, 2), as stored
StoredComponent(cm, idx, k) == cm.cmap.el[<<idx, k>>]

\* C19: as_rasterio() returns a mapping with exactly the keys 0..N-1 whose
\* entry i is (r, g, b, alpha), r, g, b being the stored 16-bit components
\* shifted right by 8 and alpha being 0 when i is the nodata value and 255
\* otherwise (255 everywhere when nodata is unset)
C19_AsRasterio ==
    (call.op = "as_rasterio" /\ call.pc = "returned") =>
        LET cm == call.args[1]
            n == cm.cmap.shape[1]
            d == Get(result.val)
        IN  /\ result.kind = "value"
            /\ DOMAIN d = 0..(n - 1)
            /\ \A i \in 0..(n - 1) :
                 /\ Len(d[i]) = 4
                 /\ \A k \in 0..2 :
                      /\ d[i][k + 1] \in 0..255
                      /\ d[i][k + 1] * 256 <= StoredComponent(cm, i, k)
                      /\ StoredComponent(cm, i, k) < (d[i][k + 1] + 1) * 256
                 /\ d[i][4] = IF cm.nodata = Some(i) THEN 0 ELSE 255

\* as_rasterio has returned for a two-entry colormap whose nodata is its
\* second index and whose components have low bytes set
C19_Witness ==
    /\ call.op = "as_rasterio" /\ call.pc = "returned"
    /\ call.args[1].cmap.shape[1] = 2
    /\ call.args[1].nodata = Some(1)
    /\ StoredComponent(call.args[1], 0, 1) = 511
    /\ Get(result.val)[0] = <<1, 1, 128, 255>>
    /\ Get(result.val)[1][4] = 0

(***************************************************************************)
(* crs_from_geo_keys over geo key directories.                             *)
(***************************************************************************)
OptionalOf(S) == {None} \cup {Some(x) : x \in S}

\* the directories: every model type, type codes unset, user-defined and
\* coded, ellipsoid, datum and projection keys set and unset
GeoKeyInputs ==
    {[NoGeoKeys EXCEPT !.model_type = mt, !.projected_type = pt,
                       !.geographic_type = gt, !.geog_ellipsoid = el,
                       !.geog_semi_major_axis = a, !.geog_inv_flattening = f,
                       !.geog_semi_minor_axis = b, !.geog_geodetic_datum = dt,
                       !.proj_coord_trans = ct] :
        mt \in 0..3,
        pt \in OptionalOf({USER_DEFINED, 3857}),
        gt \in OptionalOf({USER_DEFINED, 4326}),
        el \in OptionalOf({7030}),
        a \in OptionalOf({6378137}),
        f \in OptionalOf({298}),
        b \in OptionalOf({6356752}),
        dt \in OptionalOf({6326}),
        ct \in OptionalOf({1, 13})}

InitCrs ==
    /\ tiff = <<>>
    /\ geotiff = Unopened
    /\ call \in {[op |-> "crs_from_geo_keys", args |-> <<g>>, pc |-> "called"] :
                    g \in GeoKeyInputs}
    /\ result = NoResult

ResolveCrs ==
    /\ call.op = "crs_from_geo_keys" /\ call.pc = "called"
    /\ result' = ToResult(crs_from_geo_keys(call.args[1]))
    /\ call' = [call EXCEPT !.pc = "returned"]
    /\ UNCHANGED <<tiff, geotiff>>

NextCrs == ResolveCrs

SpecCrs == InitCrs /\ [][NextCrs]_vars

\* the result resolves the EPSG code x
IsEpsg(x) ==
    /\ result.kind = "value"
    /\ Get(result.val) = [kind |-> "EPSG", code |-> Get(x)]

\* the result is a user-defined GeographicCRS
IsUserGeographic == result.kind = "value" /\ Get(result.val).kind = "GeographicCRS"

\* the result is a user-defined ProjectedCRS with a geographic base CRS (by
\* EPSG code or user-defined) and a conversion
IsUserProjected ==
    /\ result.kind = "value"
    /\ Get(result.val).kind = "ProjectedCRS"
    /\ Get(result.val).base_crs.kind \in {"EPSG", "GeographicCRS"}
    /\ "conversion" \in DOMAIN Get(result.val)

\* the keys hold what an ellipsoid is built from
HasEllipsoid(g) ==
    \/ ~IsNone(g.geog_ellipsoid) /\ Get(g.geog_ellipsoid) # 32767
    \/ /\ ~IsNone(g.geog_semi_major_axis)
       /\ ~IsNone(g.geog_inv_flattening) \/ ~IsNone(g.geog_semi_minor_axis)

\* the keys name a geographic CRS, by code or by its ellipsoid
HasGeographic(g) ==
    \/ ~IsNone(g.geographic_type) /\ Get(g.geographic_type) # 32767
    \/ HasEllipsoid(g)

\* the keys name a coordinate transformation _build_conversion knows
HasConversion(g) ==
    ~IsNone(g.proj_coord_trans) /\ Get(g.proj_coord_trans) \in CoordTransCodes

MaxCoordTrans == 28

\* projected directories with the user-defined type code on an EPSG-coded
\* geographic base: every proj_coord_trans up to MaxCoordTrans and none; the
\* latitude keys unset, zero and non-zero one by one, the other projection
\* keys unset, zero and non-zero together
ConversionInputs ==
    {[NoGeoKeys EXCEPT !.model_type = 1, !.projected_type = Some(USER_DEFINED),
                       !.geographic_type = Some(4326),
                       !.proj_coord_trans = ct,
                       !.proj_std_parallel1 = p1,
                       !.proj_center_lat = cl,
                       !.proj_nat_origin_lat = nl,
                       !.proj_nat_origin_long = IF rest = 0 THEN None ELSE Some((rest - 1) * 11),
                       !.proj_scale_at_nat_origin = IF rest = 0 THEN None ELSE Some((rest - 1) * 2),
                       !.proj_false_easting = IF rest = 0 THEN None ELSE Some((rest - 1) * 500),
                       !.proj_false_northing = IF rest = 0 THEN None ELSE Some((rest - 1) * 600),
                       !.proj_center_long = IF rest = 0 THEN None ELSE Some((rest - 1) * 12),
                       !.proj_azimuth_angle = IF rest = 0 THEN None ELSE Some((rest - 1) * 13),
                       !.proj_scale_at_center = IF rest = 0 THEN None ELSE Some((rest - 1) * 3),
                       !.proj_center_easting = IF rest = 0 THEN None ELSE Some((rest - 1) * 700),
                       !.proj_center_northing = IF rest = 0 THEN None ELSE Some((rest - 1) * 800),
                       !.proj_false_origin_lat = IF rest = 0 THEN None ELSE Some((rest - 1) * 14),
                       !.proj_false_origin_long = IF rest = 0 THEN None ELSE Some((rest - 1) * 15),
                       !.proj_std_parallel2 = IF rest = 0 THEN None ELSE Some((rest - 1) * 16),
                       !.proj_false_origin_easting = IF rest = 0 THEN None ELSE Some((rest - 1) * 900),
                       !.proj_false_origin_northing = IF rest = 0 THEN None ELSE Some((rest - 1) * 1000),
                       !.proj_straight_vert_pole_long = IF rest = 0 THEN None ELSE Some((rest - 1) * 17)] :
        ct \in OptionalOf(0..MaxCoordTrans),
        p1 \in OptionalOf({0, 30}),
        cl \in OptionalOf({0, 45}),
        nl \in OptionalOf({0, 60}),
        rest \in 0..2}

InitConv ==
    /\ tiff = <<>>
    /\ geotiff = Unopened
    /\ call \in {[op |-> "crs_from_geo_keys", args |-> <<g>>, pc |-> "called"] :
                    g \in ConversionInputs}
    /\ result = NoResult

SpecConv == InitConv /\ [][NextCrs]_vars

\* the method the table of conversions gives for a code, None for a code
\* that is not in the table
TableMethod(ct) ==
    IF ct = 1 THEN Some("Transverse Mercator")
    ELSE IF ct \in {2, 27} THEN Some("Transverse Mercator (South Orientated)")
    ELSE IF ct \in 3..6 THEN Some("Hotine Oblique Mercator (variant B)")
    ELSE IF ct = 7 THEN Some("Mercator (variant A)")
    ELSE IF ct = 8 THEN Some("Lambert Conic Conformal (2SP)")
    ELSE IF ct = 9 THEN Some("Lambert Conic Conformal (1SP)")
    ELSE IF ct = 10 THEN Some("Lambert Azimuthal Equal Area")
    ELSE IF ct = 11 THEN Some("Albers Equal Area")
    ELSE IF ct = 12 THEN Some("Modified Azimuthal Equidistant")
    ELSE IF ct = 14 THEN Some("Stereographic")
    ELSE IF ct = 15 THEN Some("Polar Stereographic (variant B)")
    ELSE IF ct = 16 THEN Some("Oblique Stereographic")
    ELSE IF ct = 17 THEN Some("Equidistant Cylindrical")
    ELSE IF ct = 18 THEN Some("Cassini-Soldner")
    ELSE IF ct = 21 THEN Some("Orthographic")
    ELSE IF ct = 22 THEN Some("American Polyconic")
    ELSE IF ct = 24 THEN Some("Sinusoidal")
    ELSE IF ct = 26 THEN Some("New Zealand Map Grid")
    ELSE None

\* the resolution of a user-defined projected CRS has returned
ConversionReturned ==
    /\ call.op = "crs_from_geo_keys" /\ call.pc = "returned"
    /\ call.args[1].model_type = 1
    /\ call.args[1].projected_type = Some(32767)

\* C21: the conversion of a user-defined projected CRS is built exactly when
\* proj_coord_trans is one of 1-12, 14-18, 21, 22, 24, 26, 27, and its method
\* then has the name the table gives for the code; for any other code, and
\* when proj_coord_trans is absent, resolution fails and produces no CRS
C21_ConversionIffSupportedCode ==
    ConversionReturned =>
        LET ct == call.args[1].proj_coord_trans
            supported == ~IsNone(ct) /\
                         Get(ct) \in (1..12) \cup (14..18) \cup {21, 22, 24, 26, 27}
        IN  /\ supported <=> result.kind = "value"
            /\ supported =>
                 /\ Get(result.val).kind = "ProjectedCRS"
                 /\ Get(result.val).conversion.method.name = Get(TableMethod(Get(ct)))
                 /\ Get(result.val).conversion.name = Get(TableMethod(Get(ct)))
            /\ ~supported =>
                 /\ result.kind = "error" /\ result.exc = "ValueError"
                 /\ IsNone(result.val)
                 /\ ~IsNone(ct) => IsNone(TableMethod(Get(ct)))

\* proj_coord_trans 27 has resolved to the south-orientated Transverse
\* Mercator
C21_Witness ==
    /\ ConversionReturned
    /\ call.args[1].proj_coord_trans = Some(27)
    /\ result.kind = "value"
    /\ Get(result.val).conversion.method.name = "Transverse Mercator (South Orientated)"

\* the value a parameter carries for the key k with fallback key fb: the
\* value of k when k is present, else that of fb when fb is present, else the
\* default
KeyValue(g, k, fb, default) ==
    IF ~IsNone(g[k]) THEN Get(g[k])
    ELSE IF fb # "" /\ ~IsNone(g[fb]) THEN Get(g[fb])
    ELSE default

\* the keys of the parameters of each code, in the order of the table:
\* <<key, fallback key, default>>
ParamKeys(ct) ==
    LET FE == <<"proj_false_easting", "", 0>>
        FN == <<"proj_false_northing", "", 0>>
        natural == <<<<"proj_nat_origin_lat", "", 0>>, <<"proj_nat_origin_long", "", 0>>>>
        centre == <<<<"proj_center_lat", "", 0>>, <<"proj_center_long", "", 0>>>>
        falseo == <<<<"proj_false_origin_lat", "", 0>>, <<"proj_false_origin_long", "", 0>>,
                    <<"proj_std_parallel1", "", 0>>, <<"proj_std_parallel2", "", 0>>,
                    <<"proj_false_origin_easting", "", 0>>,
                    <<"proj_false_origin_northing", "", 0>>>>
    IN  IF ct \in {1, 2, 7, 9, 27}
        THEN natural \o <<<<"proj_scale_at_nat_origin", "", 1>>, FE, FN>>
        ELSE IF ct \in 3..6
        THEN centre \o <<<<"proj_azimuth_angle", "", 0>>, <<"proj_azimuth_angle", "", 0>>,
                         <<"proj_scale_at_center", "", 1>>,
                         <<"proj_center_easting", "", 0>>,
                         <<"proj_center_northing", "", 0>>>>
        ELSE IF ct \in {8, 11} THEN falseo
        ELSE IF ct \in {10, 12, 21} THEN centre \o <<FE, FN>>
        ELSE IF ct \in {14, 16} THEN centre \o <<<<"proj_scale_at_center", "", 1>>, FE, FN>>
        ELSE IF ct = 15
        THEN <<<<"proj_nat_origin_lat", "proj_std_parallel1", 0>>,
               <<"proj_straight_vert_pole_long", "proj_nat_origin_long", 0>>, FE, FN>>
        ELSE IF ct = 17
        THEN <<<<"proj_std_parallel1", "proj_center_lat", 0>>,
               <<"proj_center_long", "", 0>>, FE, FN>>
        ELSE IF ct \in {18, 22, 26} THEN natural \o <<FE, FN>>
        ELSE <<<<"proj_center_long", "", 0>>, FE, FN>>

\* C27: for every supported code each emitted parameter carries the value of
\* its geo key whenever the key is present, zero included, and the default
\* (0, or 1 for a scale factor) only when it is absent; for code 17 the first
\* parameter is proj_std_parallel1 whenever present and proj_center_lat only
\* when proj_std_parallel1 is absent
C27_ParametersCarryKeyValues ==
    (ConversionReturned /\ result.kind = "value") =>
        LET g == call.args[1]
            keys == ParamKeys(Get(g.proj_coord_trans))
            ps == Get(result.val).conversion.parameters
        IN  /\ Len(ps) = Len(keys)
            /\ \A i \in 1..Len(keys) :
                 ps[i].value = KeyValue(g, keys[i][1], keys[i][2], keys[i][3])

(***************************************************************************)
(* The tiles a read requests.                                              *)
(***************************************************************************)
\* the pixels (column, row) of the grid cell (tx, ty) of the view v
CellPixels(v, tx, ty) ==
    {p \in (0..(width(v) - 1)) \X (0..(height(v) - 1)) :
        /\ p[1] \div tile_width(v) = tx
        /\ p[2] \div tile_height(v) = ty}

\* the pixels (column, row) of a window
WindowPixels(w) ==
    (w.col_off..(w.col_off + w.width - 1)) \X (w.row_off..(w.row_off + w.height - 1))

\* a read whose window passed the bounds check has issued its requests
ReadRequested == call.op = "read" /\ ~IsNone(call.win)

\* C22: for every in-bounds window the tiles read requests are exactly the
\* grid cells whose pixel rectangle intersects the window: none missing, none
\* extra, none twice, each with 0 <= tx < ceil(width / tile_width) and
\* 0 <= ty < ceil(height / tile_height), each meeting the window
C22_ReadRequestsIntersectingTiles ==
    ReadRequested =>
        LET v == call.view
            requested == {<<call.xs[i], call.ys[i]>> : i \in 1..Len(call.xs)}
            nx == (width(v) + tile_width(v) - 1) \div tile_width(v)
            ny == (height(v) + tile_height(v) - 1) \div tile_height(v)
            meeting == {c \in (0..(nx - 1)) \X (0..(ny - 1)) :
                          CellPixels(v, c[1], c[2]) \cap WindowPixels(ArgWindow) # {}}
        IN  /\ ArgInBounds
            /\ Len(call.xs) = Len(call.ys)
            /\ requested = meeting
            /\ Cardinality(requested) = Len(call.xs)
            /\ \A c \in requested :
                 /\ 0 <= c[1] /\ c[1] < nx /\ 0 <= c[2] /\ c[2] < ny
                 /\ CellPixels(v, c[1], c[2]) \cap WindowPixels(ArgWindow) # {}

\* a read of a window that starts inside the first tile and meets four tiles
\* has returned
C22_Witness ==
    /\ Returned("read") /\ ReadRequested
    /\ ~IsNone(call.window)
    /\ Len(call.xs) = 4
    /\ ArgWindow.col_off > 0 /\ ArgWindow.row_off > 0
    /\ result.kind = "array"

(***************************************************************************)
(* Properties of the classification of directories.                        *)
(***************************************************************************)
\* the directory carries the mask bit of new_subfile_type (values 4..7 of the
\* low three bits) and the TransparencyMask photometric interpretation
MaskDirectory(ifd) ==
    /\ ifd.new_subfile_type \in {Some(n) : n \in {4, 5, 6, 7}}
    /\ ifd.photometric_interpretation = "TransparencyMask"

\* C23: every directory after the first is a mask IFD exactly when
\* (new_subfile_type & 4) != 0 and photometric_interpretation is
\* TransparencyMask; with one of the two only, or new_subfile_type absent, it
\* is a data IFD (its dimensions get an overview backed by a data IFD); no
\* mask IFD is the data directory of an overview, and every attached mask is a
\* mask IFD
C23_MaskIffBitAndPhotometric ==
    IsOpen =>
        /\ \A i \in 1..Len(G.overviews) :
             /\ ~MaskDirectory(tiff[G.overviews[i].ifd + 1])
             /\ ~IsNone(G.overviews[i].mask_ifd) =>
                  MaskDirectory(tiff[Get(G.overviews[i].mask_ifd) + 1])
        /\ ~IsNone(G.mask_ifd) => MaskDirectory(tiff[Get(G.mask_ifd) + 1])
        /\ \A p \in 2..Len(tiff) :
             IF MaskDirectory(tiff[p])
             THEN \A i \in 1..Len(G.overviews) : G.overviews[i].ifd # p - 1
             ELSE \E i \in 1..Len(G.overviews) :
                     Dims(tiff[G.overviews[i].ifd + 1]) = Dims(tiff[p])

\* a file has been opened whose second directory has the mask bit but not the
\* photometric interpretation and whose third has the photometric
\* interpretation but no new_subfile_type: both back overviews
C23_Witness ==
    /\ IsOpen
    /\ Len(tiff) = 3
    /\ tiff[2].new_subfile_type = Some(4)
    /\ tiff[2].photometric_interpretation = "BlackIsZero"
    /\ IsNone(tiff[3].new_subfile_type)
    /\ tiff[3].photometric_interpretation = "TransparencyMask"
    /\ Len(G.overviews) = 2

(***************************************************************************)
(* GeoTIFF.transform over the georeferencing tags of the first directory.  *)
(***************************************************************************)
\* first directories with each of the three tags absent or present: tiepoints
\* (I, J, K, X, Y, Z), pixel scales (sx, sy, sz), 4x4 matrices in row-major
\* order
TransformInputs ==
    {[IFD(4, 4, 2, 2, 1, "Chunky", "BlackIsZero", None) EXCEPT
         !.geo_key_directory = Some(GeoKeys),
         !.model_tiepoint = tp, !.model_pixel_scale = sc,
         !.model_transformation = mt] :
        tp \in OptionalOf({<<0, 0, 0, 100, 200, 0>>, <<0, 0, 0, 0 - 180, 90, 0>>,
                           <<0, 0, 0, 0, 0, 0>>}),
        sc \in OptionalOf({<<10, 20, 0>>, <<1, 1, 0>>, <<30, 30, 1>>}),
        mt \in OptionalOf({<<10, 0, 0, 100, 0, 0 - 20, 0, 200, 0, 0, 1, 0, 0, 0, 0, 1>>,
                           <<2, 3, 0, 5, 7, 11, 0, 13, 0, 0, 1, 0, 0, 0, 0, 1>>,
                           <<0, 1, 0, 0, 1, 0, 0, 0, 0, 0, 1, 0, 0, 0, 0, 1>>})}

InitTransform ==
    /\ tiff = <<>>
    /\ geotiff = Unopened
    /\ call \in {[op |-> "transform", args |-> <<ifd>>, pc |-> "called"] :
                    ifd \in TransformInputs}
    /\ result = NoResult

\* geotiff.transform is read
AccessTransform ==
    /\ call.op = "transform" /\ call.pc = "called"
    /\ result' = ToResult(GeoTIFF_transform(call.args[1]))
    /\ call' = [call EXCEPT !.pc = "returned"]
    /\ UNCHANGED <<tiff, geotiff>>

NextTransform == AccessTransform

SpecTransform == InitTransform /\ [][NextTransform]_vars

\* C24: the transform is chosen in a fixed order: with model_tiepoint and
\* model_pixel_scale both present it is
\* Affine(scale[0], 0, tiepoint[3], 0, -scale[1], tiepoint[4]) whatever
\* model_transformation holds; otherwise, with a 4x4 model_transformation, it
\* is the entries 0, 1, 3, 4, 5, 7 of the matrix; otherwise the access fails
\* with the error of an image without affine transformation
C24_TransformOrder ==
    (call.op = "transform" /\ call.pc = "returned") =>
        LET ifd == call.args[1]
            tp == ifd.model_tiepoint
            sc == ifd.model_pixel_scale
            mt == ifd.model_transformation
        IN  IF ~IsNone(tp) /\ ~IsNone(sc)
            THEN /\ result.kind = "value"
                 /\ Get(result.val) =
                      Affine(RInt(Get(sc)[1]), RInt(0), RInt(Get(tp)[4]),
                             RInt(0), RInt(0 - Get(sc)[2]), RInt(Get(tp)[5]))
            ELSE IF ~IsNone(mt)
            THEN /\ result.kind = "value"
                 /\ Get(result.val) =
                      Affine(RInt(Get(mt)[1]), RInt(Get(mt)[2]), RInt(Get(mt)[4]),
                             RInt(Get(mt)[5]), RInt(Get(mt)[6]), RInt(Get(mt)[8]))
            ELSE result.kind = "error" /\ result.exc = "ValueError"

\* the transform of a directory with all three tags, the matrix disagreeing
\* with the tiepoint and scale, has been read
C24_Witness ==
    /\ call.op = "transform" /\ call.pc = "returned"
    /\ call.args[1].model_tiepoint = Some(<<0, 0, 0, 100, 200, 0>>)
    /\ call.args[1].model_pixel_scale = Some(<<1, 1, 0>>)
    /\ call.args[1].model_transformation =
         Some(<<2, 3, 0, 5, 7, 11, 0, 13, 0, 0, 1, 0, 0, 0, 0, 1>>)
    /\ result.kind = "value"
    /\ Get(result.val).c = RInt(100)

(***************************************************************************)
(* fetch_tile on a view with a mask directory.                             *)
(***************************************************************************)
\* C25: in fetch_tile on a view with a mask directory the data fetch and the
\* mask fetch of the tile are both started before either is awaited, so each
\* can complete while the other is pending; the decodes start once both
\* fetches have completed, and the Array is built only after both fetches and
\* both decodes have completed
C25_FetchTileJoinsDataAndMask ==
    (IsOpen /\ call.op = "fetch_tile" /\ has_mask(call.view)) =>
        /\ call.pc = "fetching" =>
              \A k \in {"data", "mask"} \ call.fetched : ENABLED FetchDone(k)
        /\ call.pc = "decoding" => call.fetched = {"data", "mask"}
        /\ (call.pc = "returned" /\ result.kind = "array") =>
              /\ call.fetched = {"data", "mask"}
              /\ call.decoded = {<<"data", 1>>, <<"mask", 1>>}

\* the mask fetch of a tile has completed while its data fetch is pending
C25_Witness ==
    /\ IsOpen /\ call.op = "fetch_tile" /\ has_mask(call.view)
    /\ call.pc = "fetching"
    /\ call.fetched = {"mask"}

(***************************************************************************)
(* fetch_tiles on a view with a mask directory, await by await.  Spec      *)
(* above lets the decodes of a call complete in any order, which covers    *)
(* every order this section produces; here the two awaits of the decodes   *)
(* are kept apart.  tile.decode() is a call into async_tiff: its awaitable *)
(* runs either from its creation or from the moment it is awaited, and     *)
(* the call record carries which of the two it is.                         *)
(***************************************************************************)
IdleDecode == Idle @@ [eager |-> FALSE, errors |-> {}]

InitDecode ==
    /\ tiff = FileA
    /\ geotiff = Opened(tiff)
    /\ call = IdleDecode
    /\ result = NoResult

\* view.fetch_tiles(xs, ys), lines 127-133: the two batched requests are
\* issued and awaited together
CallFetchTilesMasked(v, xy, eager) ==
    /\ call.pc = "returned"
    /\ has_mask(v)
    /\ call' = Start("fetch_tiles", v, [i \in 1..Len(xy) |-> xy[i][1]],
                     [i \in 1..Len(xy) |-> xy[i][2]], None, None, TRUE)
                 @@ [eager |-> eager, errors |-> {}]
    /\ result' = NoResult
    /\ UNCHANGED <<tiff, geotiff>>

\* one of the two batched requests completes; after both, lines 135-137: the
\* decodes are created and the data decodes are awaited
BatchFetchDone(k) ==
    /\ call.pc = "fetching"
    /\ k \in {"data", "mask"} \ call.fetched
    /\ call' = LET c == fetch_done(call, k)
               IN  IF c.pc = "decoding" THEN [c EXCEPT !.pc = "decoding_tiles"] ELSE c
    /\ UNCHANGED <<tiff, geotiff, result>>

\* the decode of the i-th tile (k = "data") or mask (k = "mask") is running
decode_running(c, k, i) ==
    /\ c.pc \in {"decoding_tiles", "decoding_masks"}
    /\ i \in 1..Len(c.xs)
    /\ <<k, i>> \notin c.decoded
    /\ <<k, i>> \notin c.errors
    /\ k = "mask" => (c.eager \/ c.pc = "decoding_masks")

\* a running decode completes
TileDecodeDone(k, i) ==
    /\ decode_running(call, k, i)
    /\ call' = decode_done(call, k, i)
    /\ UNCHANGED <<tiff, geotiff, result>>

\* the group of decodes the call is awaiting
awaited_group(c) == IF c.pc = "decoding_tiles" THEN "data" ELSE "mask"

\* a running decode fails: the gather the call is awaiting raises at once, a
\* decode of the other group keeps its exception until it is awaited
TileDecodeFail(k, i) ==
    /\ decode_running(call, k, i)
    /\ IF k = awaited_group(call)
       THEN /\ call' = [failed_call(call, k, i) EXCEPT !.errors = {}]
            /\ result' = failure_result(call, "DecodeError")
       ELSE /\ call' = [call EXCEPT !.errors = call.errors \cup {<<k, i>>}]
            /\ UNCHANGED result
    /\ UNCHANGED <<tiff, geotiff>>

\* line 137 returns: every data decode has completed; line 138 awaits the
\* mask decodes
TilesDecoded ==
    /\ call.pc = "decoding_tiles"
    /\ \A i \in 1..Len(call.xs) : <<"data", i>> \in call.decoded
    /\ call' = [call EXCEPT !.pc = "decoding_masks"]
    /\ UNCHANGED <<tiff, geotiff, result>>

\* line 138 raises: a mask decode had failed before it was awaited
MasksRaise ==
    /\ call.pc = "decoding_masks"
    /\ call.errors # {}
    /\ \E e \in call.errors :
          call' = [failed_call(call, e[1], e[2]) EXCEPT !.errors = {}]
    /\ result' = failure_result(call, "DecodeError")
    /\ UNCHANGED <<tiff, geotiff>>

\* line 138 returns: every mask decode has completed; the Arrays are built
ReturnTiles ==
    /\ call.pc = "decoding_masks"
    /\ \A i \in 1..Len(call.xs) : <<"mask", i>> \in call.decoded
    /\ result' = ReturnValue
    /\ call' = [call EXCEPT !.pc = "returned"]
    /\ geotiff' = after_crs_accesses(geotiff, crs_reads)
    /\ UNCHANGED tiff

NextDecode ==
    \/ \E v \in Views, eager \in BOOLEAN : \E xy \in Batches(v) :
          CallFetchTilesMasked(v, xy, eager)
    \/ \E k \in {"data", "mask"} : BatchFetchDone(k)
    \/ \E k \in {"data", "mask"}, i \in 1..Len(call.xs) : TileDecodeDone(k, i)
    \/ \E k \in {"data", "mask"}, i \in 1..Len(call.xs) : TileDecodeFail(k, i)
    \/ TilesDecoded
    \/ MasksRaise
    \/ ReturnTiles

SpecDecode == InitDecode /\ [][NextDecode]_vars

\* C26: in fetch_tiles on a view with a mask directory, once the two batched
\* requests have completed the data decodes and the mask decodes are awaited
\* as one group: a mask decode that has not completed can complete whether
\* or not the data decodes have, and no failed decode is kept from the call
\* while the call goes on waiting
C26_DecodesAwaitedAsOneGroup ==
    (call.op = "fetch_tiles" /\ call.pc \in {"decoding_tiles", "decoding_masks"}) =>
        /\ \A i \in 1..Len(call.xs) :
              <<"mask", i>> \notin call.decoded \cup call.errors
                 => ENABLED TileDecodeDone("mask", i)
        /\ call.errors = {}

\* the data tiles and the mask tiles are requested in one batched call each,
\* and the decodes start once both requests have completed
C26_BatchedRequests ==
    (call.op = "fetch_tiles" /\ call.pc \in {"decoding_tiles", "decoding_masks"}) =>
        call.fetched = {"data", "mask"}

(***************************************************************************)
(* Every way of making a Window: the constructor, from_slices,             *)
(* intersection and _crop.                                                 *)
(***************************************************************************)
\* C28: every Window that exists, whether constructed directly or returned by
\* from_slices, intersection or _crop, has col_off >= 0, row_off >= 0,
\* width > 0 and height > 0; an operation whose result would not (the
\* constructor on such fields, from_slices with a stop <= start, an
\* intersection without a common pixel, a crop that leaves nothing) fails
\* instead of returning a Window
C28_EveryWindowIsValid ==
    (call.op \in {"Window", "from_slices", "intersection", "crop"} /\ call.pc = "returned") =>
        /\ result.kind \in {"value", "error"}
        /\ result.kind = "value" =>
              /\ Get(result.val).col_off >= 0
              /\ Get(result.val).row_off >= 0
              /\ Get(result.val).width > 0
              /\ Get(result.val).height > 0
        /\ (/\ call.op = "Window"
            /\ \/ call.args[1] < 0 \/ call.args[2] < 0
               \/ call.args[3] <= 0 \/ call.args[4] <= 0) => result.kind = "error"
        /\ (/\ call.op = "from_slices"
            /\ \E n \in 1..2 :
                  /\ call.args[n].form = "tuple"
                  /\ Len(call.args[n].items) = 2
                  /\ call.args[n].items[2] <= call.args[n].items[1]) => result.kind = "error"
        /\ (/\ call.op = "intersection"
            /\ \/ Min(col_stop(call.args[1]), col_stop(call.args[2]))
                    <= Max(call.args[1].col_off, call.args[2].col_off)
               \/ Min(row_stop(call.args[1]), row_stop(call.args[2]))
                    <= Max(call.args[1].row_off, call.args[2].row_off)) => result.kind = "error"
        /\ (/\ call.op = "crop"
            /\ \/ call.args[1].row_off >= call.args[2]
               \/ call.args[1].col_off >= call.args[3]) => result.kind = "error"

\* from_slices with a column stop before its start has failed
C28_Witness ==
    /\ call.op = "from_slices" /\ call.pc = "returned"
    /\ call.args[1] = TupleArg(<<0, 2>>)
    /\ call.args[2] = TupleArg(<<2, 1>>)
    /\ result.kind = "error"

(***************************************************************************)
(* Data directories of equal dimensions.                                   *)
(***************************************************************************)
\* the positions after the first of the data directories with the dimensions
\* of the directory at position p
DataDirectoriesLike(p) ==
    {q \in 2..Len(tiff) : ~MaskDirectory(tiff[q]) /\ Dims(tiff[q]) = Dims(tiff[p])}

\* C29: the overview list holds at most one overview per distinct
\* (image_width, image_height); when several data directories after the first
\* have the same dimensions there is exactly one overview of these
\* dimensions, backed by the last of them in file order, and the earlier ones
\* are the data directory of no overview
C29_OneOverviewPerDims ==
    IsOpen =>
        /\ \A i, j \in 1..Len(G.overviews) :
              Dims(tiff[G.overviews[i].ifd + 1]) = Dims(tiff[G.overviews[j].ifd + 1])
                 => i = j
        /\ \A p \in 2..Len(tiff) :
              ~MaskDirectory(tiff[p]) =>
                 LET last == CHOOSE q \in DataDirectoriesLike(p) :
                                \A r \in DataDirectoriesLike(p) : r <= q
                 IN  /\ Cardinality({i \in 1..Len(G.overviews) :
                            Dims(tiff[G.overviews[i].ifd + 1]) = Dims(tiff[p])}) = 1
                     /\ \E i \in 1..Len(G.overviews) : G.overviews[i].ifd = last - 1
                     /\ p # last =>
                           \A i \in 1..Len(G.overviews) : G.overviews[i].ifd # p - 1

\* a file has been opened whose second and third directories are data
\* directories of the same dimensions and different contents: its one
\* overview is backed by the third
C29_Witness ==
    /\ IsOpen
    /\ Len(tiff) = 3
    /\ ~MaskDirectory(tiff[2]) /\ ~MaskDirectory(tiff[3])
    /\ Dims(tiff[2]) = Dims(tiff[3])
    /\ tiff[2] # tiff[3]
    /\ Len(G.overviews) = 1
    /\ G.overviews[1].ifd = 2

(***************************************************************************)
(* The nodata value of the Arrays handed out.                              *)
(***************************************************************************)
\* C30: the Array returned by read and every tile Array returned by
\* fetch_tile and fetch_tiles carries the nodata value of the image it was
\* read from: GeoTIFF.nodata, and None exactly when the image has none
C30_ArraysCarryNodata ==
    /\ (Returned("read") /\ result.kind = "array") =>
          Get(result.val).nodata = GeoTIFF_nodata
    /\ (Returned("fetch_tile") /\ result.kind = "array") =>
          Get(result.val).nodata = GeoTIFF_nodata
    /\ Returned("fetch_tiles") =>
          \A i \in 1..Len(Get(result.val)) :
             Get(result.val)[i].array.nodata = GeoTIFF_nodata

=============================================================================
